---------------------------- MODULE Spec2Model ----------------------------
(***************************************************************************)
(* Contentstack CSV importer: the schema flattener, the field matcher, the *)
(* value transformer, the nested merge and the row builder, as state       *)
(* machines over bounded inputs.                                           *)
(*                                                                         *)
(* A JavaScript string is a sequence of one-character strings, so that     *)
(* trim, toLowerCase, split, the regular-expression replacements and       *)
(* Number() are computed character by character, as the code does.         *)
(* A JavaScript value is a record [k, v] with k its kind: "undef", "null", *)
(* "bool", "num", "str", "arr" (v: sequence of values) and "obj" (v: the   *)
(* sequence of [key, val] entries in insertion order, the order            *)
(* JSON.stringify and Object.keys see).                                    *)
(***************************************************************************)
EXTENDS Integers, Sequences, FiniteSets, TLC

(***************************************************************************)
(* Strings                                                                 *)
(***************************************************************************)

\* the value of an absent optional string (blockType, parentField, ...)
NoStr == <<"undefined">>

UpperCase ==
    <<"A","B","C","D","E","F","G","H","I","J","K","L","M",
      "N","O","P","Q","R","<<",">>T","U","V","W","X","Y","Z">>

LowerCase ==
    <<"a","b","c","d","e","f","g","h","i","j","k","l","m",
      "n","o","p","q","r","s","t","u","v","w","x","y","z">>

Digits == <<"0","1","2","3","4","5","6","7","8","9">>

\* the element of a singleton set: { F(x) : x \in {e} } evaluates e once and
\* hands F its value, where a LET would evaluate e at every use
Only(S) == CHOOSE x \in S : TRUE

RECURSIVE IndexIn(_, _, _)
\* the first position >= i of c in the sequence s, 0 when there is none
IndexIn(c, s, i) ==
    IF i > Len(s) THEN 0
    ELSE IF s[i] = c THEN i
    ELSE IndexIn(c, s, i + 1)

IsUpper(c) == IndexIn(c, UpperCase, 1) # 0
IsLowerAlpha(c) == IndexIn(c, LowerCase, 1) # 0
IsDigit(c) == IndexIn(c, Digits, 1) # 0
DigitVal(c) == IndexIn(c, Digits, 1) - 1

\* the characters \s matches and trim() strips, among those the cells use
IsSpace(c) == c \in {" ", "\t", "\n", "\r"}

LowerChar(c) == IF IsUpper(c) THEN LowerCase[IndexIn(c, UpperCase, 1)] ELSE c

\* String.prototype.toLowerCase
ToLowerCase(s) == [i \in 1..Len(s) |-> LowerChar(s[i])]

RECURSIVE DropLeadingSpace(_)
DropLeadingSpace(s) ==
    IF s # <<>> /\ IsSpace(Head(s)) THEN DropLeadingSpace(Tail(s)) ELSE s

RECURSIVE DropTrailingSpace(_)
DropTrailingSpace(s) ==
    IF s # <<>> /\ IsSpace(s[Len(s)])
    THEN DropTrailingSpace(SubSeq(s, 1, Len(s) - 1))
    ELSE s

\* String.prototype.trim
Trim(s) == DropTrailingSpace(DropLeadingSpace(s))

\* whether t occurs in s at position i
StartsAt(s, t, i) ==
    /\ i >= 1
    /\ i + Len(t) - 1 <= Len(s)
    /\ SubSeq(s, i, i + Len(t) - 1) = t

\* String.prototype.includes
Includes(s, t) == \E i \in 1..(Len(s) + 1) : StartsAt(s, t, i)

RECURSIVE SplitFrom(_, _, _)
\* the parts of s from position i on, cur being the part under way
SplitFrom(s, i, cur) ==
    IF i > Len(s) THEN <<cur>>
    ELSE IF s[i] = "." THEN <<cur>> \o SplitFrom(s, i + 1, <<>>)
    ELSE SplitFrom(s, i + 1, Append(cur, s[i]))

\* fieldPath.split('.')
SplitPath(s) == SplitFrom(s, 1, <<>>)

\* the template literal `${a}.${b}`
Dot(a, b) == a \o <<".">> \o b

(***************************************************************************)
(* JavaScript values                                                       *)
(***************************************************************************)

Undefined == [k |-> "undef", v |-> <<>>]
Null == [k |-> "null", v |-> <<>>]
Bool(b) == [k |-> "bool", v |-> <<b>>]
\* a finite number: sign, integer part, fraction digits without trailing zeros
Num(neg, int, frac) == [k |-> "num", v |-> <<neg, int, frac>>]
Str(s) == [k |-> "str", v |-> s]
Arr(elems) == [k |-> "arr", v |-> elems]
Obj(entries) == [k |-> "obj", v |-> entries]
EmptyObj == Obj(<<>>)
Entry(key, val) == [key |-> key, val |-> val]

IsObj(x) == x.k = "obj"
IsArr(x) == x.k = "arr"
IsStr(x) == x.k = "str"

\* JavaScript truthiness: !x is ~Truthy(x)
Truthy(x) ==
    CASE x.k = "undef" -> FALSE
      [] x.k = "null" -> FALSE
      [] x.k = "bool" -> x.v[1]
      [] x.k = "num" -> ~(x.v[2] = 0 /\ x.v[3] = <<>>)
      [] x.k = "str" -> x.v # <<>>
      [] OTHER -> TRUE

RECURSIVE KeyIndex(_, _, _)
\* the position of key among the entries from i on, 0 when absent
KeyIndex(entries, key, i) ==
    IF i > Len(entries) THEN 0
    ELSE IF entries[i].key = key THEN i
    ELSE KeyIndex(entries, key, i + 1)

HasKey(o, key) == KeyIndex(o.v, key, 1) # 0

\* o[key] on an object: the value, or undefined
Get(o, key) ==
    IF IsObj(o) /\ HasKey(o, key) THEN o.v[KeyIndex(o.v, key, 1)].val
    ELSE Undefined

\* o[key] = val on an object: an existing key keeps its place, a new key is
\* appended
Set(o, key, val) ==
    IF HasKey(o, key)
    THEN Obj([o.v EXCEPT ![KeyIndex(o.v, key, 1)].val = val])
    ELSE Obj(Append(o.v, Entry(key, val)))

\* Object.keys(o)[0]
FirstKey(o) == IF IsObj(o) /\ o.v # <<>> THEN o.v[1].key ELSE NoStr

RECURSIVE HoldsNull(_)
\* whether JSON.stringify(x) shows a null somewhere
HoldsNull(x) ==
    CASE x.k = "null" -> TRUE
      [] x.k = "arr" -> \E i \in 1..Len(x.v) : HoldsNull(x.v[i])
      [] x.k = "obj" -> \E i \in 1..Len(x.v) : HoldsNull(x.v[i].val)
      [] OTHER -> FALSE

(***************************************************************************)
(* Number(value) and new Date(value).toISOString()                         *)
(***************************************************************************)

RECURSIVE DigitsValue(_, _)
\* the number a run of digits denotes, acc being the value read so far
DigitsValue(ds, acc) ==
    IF ds = <<>> THEN acc
    ELSE DigitsValue(Tail(ds), 10 * acc + DigitVal(Head(ds)))

AllDigits(s) == \A i \in 1..Len(s) : IsDigit(s[i])

RECURSIVE DropTrailingZeros(_)
DropTrailingZeros(ds) ==
    IF ds # <<>> /\ ds[Len(ds)] = "0"
    THEN DropTrailingZeros(SubSeq(ds, 1, Len(ds) - 1))
    ELSE ds

\* Number(s), NaN being Undefined here: the string is trimmed, an empty
\* string is 0, and a signed decimal literal (digits, with an optional point)
\* is its value. Exponents, hex/octal/binary literals and Infinity are not
\* covered: no cell of the model holds one.
ToNumber(s) ==
    LET t == Trim(s)
        signed == t # <<>> /\ Head(t) \in {"+", "-"}
        neg == t # <<>> /\ Head(t) = "-"
        body == IF signed THEN Tail(t) ELSE t
        dot == IndexIn(".", body, 1)
        ip == IF dot = 0 THEN body ELSE SubSeq(body, 1, dot - 1)
        fp == IF dot = 0 THEN <<>> ELSE SubSeq(body, dot + 1, Len(body))
        frac == DropTrailingZeros(fp)
        int == DigitsValue(ip, 0)
    IN  IF t = <<>> THEN Num(FALSE, 0, <<>>)
        ELSE IF AllDigits(ip) /\ AllDigits(fp) /\ Len(ip) + Len(fp) > 0
        THEN Num(neg /\ ~(int = 0 /\ frac = <<>>), int, frac)
        ELSE Undefined

IsNaN(n) == n = Undefined

HasDigit(s) == \E i \in 1..Len(s) : IsDigit(s[i])

\* the date-only ISO form YYYY-MM-DD
IsoDateShaped(s) ==
    /\ Len(s) = 10
    /\ s[5] = "-" /\ s[8] = "-"
    /\ AllDigits(SubSeq(s, 1, 4)) /\ AllDigits(SubSeq(s, 6, 7))
    /\ AllDigits(SubSeq(s, 9, 10))

IsoMonth(s) == DigitsValue(SubSeq(s, 6, 7), 0)
IsoDay(s) == DigitsValue(SubSeq(s, 9, 10), 0)
IsoYear(s) == DigitsValue(SubSeq(s, 1, 4), 0)

DaysInMonth(y, m) ==
    IF m = 2
    THEN (IF (y % 4 = 0 /\ y % 100 # 0) \/ y % 400 = 0 THEN 29 ELSE 28)
    ELSE IF m \in {4, 6, 9, 11} THEN 30 ELSE 31

\* The strings on which every engine's Date parser agrees: a date-only ISO
\* string whose day is not between the month's end and 31 (engines differ
\* there), and a string without any digit that names no month. The model
\* draws date cells among these only.
DateDefined(s) ==
    \/ /\ IsoDateShaped(s)
       /\ \/ IsoMonth(s) \notin 1..12
          \/ IsoDay(s) \notin (DaysInMonth(IsoYear(s), IsoMonth(s)) + 1)..31
    \/ ~HasDigit(s)

\* whether new Date(s) is a valid date
DateValid(s) ==
    /\ IsoDateShaped(s)
    /\ IsoMonth(s) \in 1..12
    /\ IsoDay(s) \in 1..DaysInMonth(IsoYear(s), IsoMonth(s))

\* new Date(s).toISOString() of a valid date-only string: midnight UTC
ToISOString(s) == s \o <<"T", "0", "0", ":", "0", "0", ":", "0", "0", ".", "0", "0", "0", "Z">>

(***************************************************************************)
(* Field mappings and the value transformer                                *)
(***************************************************************************)

\* a FieldMapping (types/contentstack.ts); fieldType is one of the strings
\* of the union type, absent optional strings are NoStr, absent
\* selectOptions the empty sequence
Mapping(col, field, type, required, blockType, parentField, options) ==
    [csvColumn |-> col, contentstackField |-> field, fieldType |-> type,
     isRequired |-> required, blockType |-> blockType,
     parentField |-> parentField, selectOptions |-> options]

SelectOption(value, text) == [value |-> value, text |-> text]

\* a string used as a condition: undefined and '' are falsy
StrTruthy(s) == s # NoStr /\ s # <<>>

RECURSIVE FindOption(_, _, _, _)
\* Array.prototype.find over the options with one of the three predicates
\* of transformValue; 0 when no option satisfies it
FindOption(options, value, mode, i) ==
    IF i > Len(options) THEN 0
    ELSE
      LET o == options[i]
          lv == ToLowerCase(value)
          hit ==
            CASE mode = "exact" -> o.value = value \/ o.text = value
              [] mode = "nocase" ->
                   \/ ToLowerCase(o.value) = lv
                   \/ ToLowerCase(o.text) = lv
              [] OTHER ->
                   \/ Includes(ToLowerCase(o.value), lv)
                   \/ Includes(ToLowerCase(o.text), lv)
                   \/ Includes(lv, ToLowerCase(o.value))
                   \/ Includes(lv, ToLowerCase(o.text))
      IN  IF hit THEN i ELSE FindOption(options, value, mode, i + 1)

\* the select branch of transformValue
TransformSelect(value, options) ==
    IF Len(options) > 0
    THEN
      LET e == FindOption(options, value, "exact", 1)
          c == IF e # 0 THEN e ELSE FindOption(options, value, "nocase", 1)
          m == IF c # 0 THEN c ELSE FindOption(options, value, "partial", 1)
      IN  IF m # 0 THEN Str(options[m].value) ELSE Null
    ELSE Str(value)

\* the boolean branch of transformValue (useImportOperations.tsx)
TransformBoolean(value) ==
    LET lowerValue == ToLowerCase(value)
    IN  IF lowerValue = <<"t", "r", "u", "e">> \/ lowerValue = <<"1">> THEN Bool(TRUE)
        ELSE IF lowerValue = <<"f", "a", "l", "s", "e">> \/ lowerValue = <<"0">> THEN Bool(FALSE)
        ELSE Null

\* the number branch of transformValue
TransformNumber(value) ==
    LET parsedValue == ToNumber(value)
    IN  IF IsNaN(parsedValue) THEN Null ELSE parsedValue

\* the date branch of transformValue: toISOString throws a RangeError on an
\* invalid date, and the catch returns null
TransformDate(value) ==
    IF DateValid(value) THEN Str(ToISOString(value)) ELSE Null

\* transformValue of the import hook; value is a cell, NoStr when undefined
TransformValue(value, mapping) ==
    IF value = NoStr THEN Null
    ELSE IF mapping.fieldType = "file" THEN Null
    ELSE IF mapping.fieldType = "number" THEN TransformNumber(value)
    ELSE IF mapping.fieldType = "boolean" THEN TransformBoolean(value)
    ELSE IF mapping.fieldType = "date" THEN TransformDate(value)
    ELSE IF mapping.fieldType = "select"
    THEN TransformSelect(value, mapping.selectOptions)
    ELSE Str(value)

\* parseFloat(value) on the cells of the model: the longest decimal prefix
\* of the trimmed-left string, NaN (Undefined) when there is none
RECURSIVE DecimalPrefix(_, _, _)
DecimalPrefix(s, i, seenDot) ==
    IF i > Len(s) THEN i - 1
    ELSE IF IsDigit(s[i]) THEN DecimalPrefix(s, i + 1, seenDot)
    ELSE IF s[i] = "." /\ ~seenDot THEN DecimalPrefix(s, i + 1, TRUE)
    ELSE i - 1

ParseFloat(value) ==
    LET t == DropLeadingSpace(value)
        signed == t # <<>> /\ Head(t) \in {"+", "-"}
        body == IF signed THEN Tail(t) ELSE t
        n == DecimalPrefix(body, 1, FALSE)
        lit == SubSeq(body, 1, n)
    IN  IF HasDigit(lit)
        THEN ToNumber((IF signed THEN <<Head(t)>> ELSE <<>>) \o lit)
        ELSE Undefined

\* transformValue of the earlier ImportProgress component, which takes the
\* field type alone; NaN and an invalid date's RangeError are kept apart
\* from null
NaN == [k |-> "nan", v |-> <<>>]
Thrown == [k |-> "throw", v |-> <<>>]

\* the guard without its trim
IsBlankUntrimmed(value) == value = NoStr \/ value = <<>>

\* !value || value.trim() === ''
IsBlank(value) == value = NoStr \/ value = <<>> \/ Trim(value) = <<>>

LegacyTransformValue(value, fieldType) ==
    IF IsBlank(value) THEN Null
    ELSE IF fieldType = "number"
    THEN (IF IsNaN(ParseFloat(value)) THEN NaN ELSE ParseFloat(value))
    ELSE IF fieldType = "boolean"
    THEN Bool(ToLowerCase(value) = <<"t", "r", "u", "e">> \/ value = <<"1">>)
    ELSE IF fieldType = "date"
    THEN (IF DateValid(value) THEN Str(ToISOString(value)) ELSE Thrown)
    ELSE IF fieldType = "reference"
    THEN Arr(<<Obj(<<Entry(<<"u", "i", "d">>, Str(value))>>)>>)
    ELSE Str(value)

RECURSIVE StrArr(_)
\* an array of strings as a JavaScript value
StrArr(parts) ==
    IF parts = <<>> THEN <<>>
    ELSE <<Str(Head(parts))>> \o StrArr(Tail(parts))

\* transformNestedValue (fieldUtils.ts), with transformValue the hook's
TransformNestedValue(value, fieldPath, fieldMapping) ==
    LET pathParts == SplitPath(fieldPath)
        n == Len(pathParts)
        transformedValue == TransformValue(value, fieldMapping)
    IN  IF IsBlank(value) THEN Null
        ELSE IF n = 1 THEN transformedValue
        ELSE IF /\ n = 4
                /\ pathParts[2] = <<"m", "o", "d", "u", "l", "a", "r", "_", "b", "l", "o", "c", "k", "s">>
                /\ StrTruthy(fieldMapping.blockType)
        THEN Obj(<<Entry(<<"i", "s", "G", "l", "o", "b", "a", "l", "F", "i", "e", "l", "d", "B", "l", "o", "c", "k">>, Bool(TRUE)),
                   Entry(<<"g", "l", "o", "b", "a", "l", "F", "i", "e", "l", "d", "N", "a", "m", "e">>, Str(pathParts[1])),
                   Entry(<<"b", "l", "o", "c", "k", "T", "y", "p", "e">>, Str(fieldMapping.blockType)),
                   Entry(<<"f", "i", "e", "l", "d", "N", "a", "m", "e">>, Str(pathParts[4])),
                   Entry(<<"v", "a", "l", "u", "e">>, transformedValue)>>)
        ELSE IF n = 3 /\ StrTruthy(fieldMapping.blockType)
        THEN Obj(<<Entry(<<"b", "l", "o", "c", "k", "T", "y", "p", "e">>, Str(fieldMapping.blockType)),
                   Entry(<<"f", "i", "e", "l", "d", "N", "a", "m", "e">>, Str(pathParts[3])),
                   Entry(<<"v", "a", "l", "u", "e">>, transformedValue)>>)
        ELSE IF n >= 2 /\ ~StrTruthy(fieldMapping.blockType)
        THEN Obj(<<Entry(<<"f", "i", "e", "l", "d", "N", "a", "m", "e">>, Str(pathParts[n])),
                   Entry(<<"v", "a", "l", "u", "e">>, transformedValue),
                   Entry(<<"i", "s", "G", "l", "o", "b", "a", "l", "F", "i", "e", "l", "d">>, Bool(TRUE)),
                   Entry(<<"g", "l", "o", "b", "a", "l", "F", "i", "e", "l", "d", "N", "a", "m", "e">>, Str(pathParts[1])),
                   Entry(<<"n", "e", "s", "t", "e", "d", "P", "a", "t", "h">>, Arr(StrArr(SubSeq(pathParts, 2, n))))>>)
        ELSE transformedValue

(***************************************************************************)
(* mergeNestedData                                                         *)
(*                                                                         *)
(* The function copies the top level of the document ({...existingData})   *)
(* and then writes into the containers that copy shares with the input.    *)
(* A merge is therefore a record [result, input, threw]: the document      *)
(* returned, the input document as its holder sees it after the call, and  *)
(* whether the call threw a TypeError (the module is an ES module, so      *)
(* strict: writing a property of a primitive throws).                      *)
(***************************************************************************)

Merged(result, input, threw) ==
    [result |-> result, input |-> input, threw |-> threw]

\* a container's value after the writes made into it, and whether a write
\* threw
Written(val, threw) == [val |-> val, threw |-> threw]

\* x[key] of any defined value: an object's property, undefined otherwise
Prop(x, key) == Get(x, key)

\* the nestedPath array of a wrapper as a sequence of strings
PathOf(arr) == [i \in 1..Len(arr.v) |-> arr.v[i].v]

\* a find whose predicate compares the block, not its first key
FindBlockByIdentity(elems, blockType, i) ==
    IF \E j \in i..Len(elems) : elems[j] = Str(blockType)
    THEN CHOOSE j \in i..Len(elems) : elems[j] = Str(blockType)
    ELSE 0

RECURSIVE FindBlockByFirstKey(_, _, _)
\* find(block => Object.keys(block)[0] === blockType)
FindBlockByFirstKey(elems, blockType, i) ==
    IF i > Len(elems) THEN 0
    ELSE IF FirstKey(elems[i]) = blockType THEN i
    ELSE FindBlockByFirstKey(elems, blockType, i + 1)

RECURSIVE FindBlockByProp(_, _, _)
\* find(block => block[blockType])
FindBlockByProp(elems, blockType, i) ==
    IF i > Len(elems) THEN 0
    ELSE IF Truthy(Prop(elems[i], blockType)) THEN i
    ELSE FindBlockByProp(elems, blockType, i + 1)

\* existingBlock[blockType][fieldName] = value on the block at position at
\* of the array, the block being appended first when at is 0. A property
\* written on an array is not part of the serialised document.
WriteBlockField(elems, at, blockType, fieldName, value) ==
    LET grown == IF at = 0
                 THEN Append(elems, Obj(<<Entry(blockType, EmptyObj)>>))
                 ELSE elems
        pos == IF at = 0 THEN Len(grown) ELSE at
        inner == Get(grown[pos], blockType)
    IN  IF IsObj(inner)
        THEN Written(Arr([grown EXCEPT
                 ![pos] = Set(grown[pos], blockType,
                              Set(inner, fieldName, value))]), FALSE)
        ELSE IF IsArr(inner) THEN Written(Arr(grown), FALSE)
        ELSE Written(Arr(grown), TRUE)

\* the direct modular block branch, on the container result[fieldName]
MergeBlock(container, blockType, blockFieldName, value) ==
    IF ~IsArr(container) THEN Written(container, TRUE)
    ELSE WriteBlockField(container.v,
                         FindBlockByFirstKey(container.v, blockType, 1),
                         blockType, blockFieldName, value)

RECURSIVE WriteNested(_, _, _, _)
\* the walk along nestedPath from position i and the final assignment
WriteNested(current, nestedPath, i, value) ==
    IF IsArr(current) THEN Written(current, FALSE)
    ELSE IF ~IsObj(current) THEN Written(current, TRUE)
    ELSE IF i >= Len(nestedPath)
    THEN Written(Set(current, nestedPath[i], value), FALSE)
    ELSE
      LET held == Get(current, nestedPath[i])
          next == IF ~Truthy(held) THEN EmptyObj ELSE held
      IN  Only({ Written(Set(current, nestedPath[i], below.val), below.threw) :
                 below \in {WriteNested(next, nestedPath, i + 1, value)} })

\* the branch for modular blocks inside a global field, on the container
\* result[globalFieldName]
MergeGlobalBlock(container, blockType, fieldName, value) ==
    IF IsArr(container) THEN Written(container, FALSE)
    ELSE IF ~IsObj(container) THEN Written(container, TRUE)
    ELSE
      LET held == Get(container, <<"m", "o", "d", "u", "l", "a", "r", "_", "b", "l", "o", "c", "k", "s">>)
          blocks == IF ~Truthy(held) THEN Arr(<<>>) ELSE held
          withBlocks == Set(container, <<"m", "o", "d", "u", "l", "a", "r", "_", "b", "l", "o", "c", "k", "s">>, blocks)
      IN  IF ~IsArr(blocks) THEN Written(withBlocks, TRUE)
          ELSE
            Only({ Written(Set(container, <<"m", "o", "d", "u", "l", "a", "r", "_", "b", "l", "o", "c", "k", "s">>, w.val), w.threw) :
                   w \in {WriteBlockField(blocks.v,
                              FindBlockByProp(blocks.v, blockType, 1),
                              blockType, fieldName, value)} })

\* a branch that works on the container held under key: a fresh container
\* belongs to the result alone, a container already there is the input's
\* too, and is written into in place
MergeInto(existingData, key, fresh, written) ==
    Only({ Merged(Set(existingData, key, w.val),
                  IF fresh THEN existingData
                  ELSE Set(existingData, key, w.val),
                  w.threw) : w \in {written} })

MergeNestedData(existingData, newData, fieldPath) ==
    LET pathParts == SplitPath(fieldPath)
    IN  IF Len(pathParts) = 1
        THEN Merged(Set(existingData, pathParts[1], newData),
                    existingData, FALSE)
        ELSE IF newData.k \in {"null", "undef"}
        THEN Merged(existingData, existingData, TRUE)
        ELSE IF Truthy(Prop(newData, <<"i", "s", "G", "l", "o", "b", "a", "l", "F", "i", "e", "l", "d", "B", "l", "o", "c", "k">>))
        THEN
          LET name == Prop(newData, <<"g", "l", "o", "b", "a", "l", "F", "i", "e", "l", "d", "N", "a", "m", "e">>).v
              held == Get(existingData, name)
              fresh == ~Truthy(held) \/ IsStr(held)
          IN  MergeInto(existingData, name, fresh,
                  MergeGlobalBlock(IF fresh THEN EmptyObj ELSE held,
                                   Prop(newData, <<"b", "l", "o", "c", "k", "T", "y", "p", "e">>).v,
                                   Prop(newData, <<"f", "i", "e", "l", "d", "N", "a", "m", "e">>).v,
                                   Prop(newData, <<"v", "a", "l", "u", "e">>)))
        ELSE IF Len(pathParts) = 3 /\ Truthy(Prop(newData, <<"b", "l", "o", "c", "k", "T", "y", "p", "e">>))
        THEN
          LET held == Get(existingData, pathParts[1])
              fresh == ~Truthy(held)
          IN  MergeInto(existingData, pathParts[1], fresh,
                  MergeBlock(IF fresh THEN Arr(<<>>) ELSE held,
                             pathParts[2], pathParts[3],
                             Prop(newData, <<"v", "a", "l", "u", "e">>)))
        ELSE IF Len(pathParts) >= 2 /\ Truthy(Prop(newData, <<"i", "s", "G", "l", "o", "b", "a", "l", "F", "i", "e", "l", "d">>))
        THEN
          LET name == Prop(newData, <<"g", "l", "o", "b", "a", "l", "F", "i", "e", "l", "d", "N", "a", "m", "e">>).v
              held == Get(existingData, name)
              fresh == ~Truthy(held) \/ IsStr(held)
          IN  MergeInto(existingData, name, fresh,
                  WriteNested(IF fresh THEN EmptyObj ELSE held,
                              PathOf(Prop(newData, <<"n", "e", "s", "t", "e", "d", "P", "a", "t", "h">>)), 1,
                              Prop(newData, <<"v", "a", "l", "u", "e">>)))
        ELSE Merged(existingData, existingData, FALSE)

(***************************************************************************)
(* State                                                                   *)
(***************************************************************************)

VARIABLES
    \* handleCreateOrUpdateEntry, the loop over fieldMapping for one row
    entryData,      \* the document under construction
    rowStep,        \* the number of mappings the loop has gone through
    rowPc,          \* "loop", "built" (the loop is over), "failed" (a
                    \* required field is missing), "error" (the catch)
    lastMapping,    \* the mapping of the last iteration
    lastCell,       \* row[mapping.csvColumn] of the last iteration
    lastEntryData,  \* entryData before the last iteration
    handlerRowIndex, \* the rowIndex the handler was called with
    rowLogs,        \* the entries the handler's addLog calls have made
    lastRowLogs,    \* rowLogs before the last iteration
    \* successive mergeNestedData calls on one document
    mergeDoc,       \* the document the last call returned
    mergeCount,     \* the number of calls made
    mergePath,      \* the fieldPath of the last call
    mergeNew,       \* the newData of the last call
    mergeInput,     \* the document passed to the last call, before it
    mergeInputNow,  \* the same document object after the call
    mergeThrew,     \* whether the last call threw
    \* single calls of the transformers
    trFn,           \* the function called last: "nested" (transformNestedValue
                    \* within one loop iteration), "hook" (transformValue of
                    \* useImportOperations), "legacy" (transformValue of the
                    \* earlier ImportProgress), "none" before any call
    trCell,         \* its value argument
    trMapping,      \* its mapping argument
    trOut,          \* what it returned
    trDoc,          \* the document before the iteration ("nested")
    trDocNow,       \* the document after the iteration ("nested")
    \* findMatchingField and the mapping entry initializeMapping makes of it
    csvHeader,      \* the header being matched
    fields,         \* the flattened fields it is matched against
    fieldIndex,     \* the position of the loop over fields
    bestMatch,      \* the local bestMatch
    bestConfidence, \* the local bestConfidence
    matchResult,    \* the MatchResult returned
    matchPc,        \* "idle", "loop", "returned", "mapped"
    initialEntry,   \* the entry of initialMapping for the header
    \* flattenContentstackFields and flattenContentstackFieldsSync
    schemaFields,   \* the fields argument of the outermost call
    hasConfig,      \* whether a config was passed
    responses,      \* the status the platform answers for each global field
    flatSync,       \* whether the synchronous function is the one called
    flatIndex,      \* the position of the outermost loop
    flattened,      \* the local flattened of the outermost call
    flatPc,         \* "idle", "loop", "done"
    \* the two log stores
    logs,           \* SecureLogger.logs: the details of the entries
    hookLogs,       \* the logs state of the import hook: the data of the entries
    \* the mapping step
    csvHeaders,     \* csvData.headers of the page
    fieldMapping,   \* the fieldMapping state of the page
    activeTab,      \* the activeTab state of the page
    stepMapping,    \* the mapping state of the mounted FieldMapping
                    \* component, empty while none is mounted
    \* the import step
    csvRows,        \* csvData.rows: each row the cells of its columns
    importMapping,  \* the fieldMapping prop, empty until the step is shown
    shouldPublish,  \* config.shouldPublish
    repository,     \* the entries of the content type on the platform, the
                    \* uid of an entry being its position
    isImporting,    \* the isImporting state of the page
    shouldStop,     \* the shouldStop state of the earlier component
    results,        \* the results state of the earlier component
    runs,           \* the calls of startImport that have not returned,
                    \* and the last one that has
    started,        \* the number of calls of startImport so far
    faults,         \* the number of transport calls that failed so far
    \* the page and the browser's storage
    pageConfig,     \* the config state of the page: <<>> for null, or <<config>>
    csvData,        \* whether the csvData state of the page is set
    pageFieldMapping, \* whether the fieldMapping state of the page is non-empty
    pageActiveTab,  \* the activeTab state of the page
    formConfig,     \* the config state of the ConfigurationForm, the default
                    \* while the form is not mounted
    localStorage,   \* the items under the keys of STORAGE_KEYS
    importToken     \* <<the authorization of the last startImport>>, <<>>
                    \* while there was none

rowVars ==
    <<entryData, rowStep, rowPc, lastMapping, lastCell, lastEntryData,
      handlerRowIndex, rowLogs, lastRowLogs>>
mergeVars ==
    <<mergeDoc, mergeCount, mergePath, mergeNew, mergeInput, mergeInputNow,
      mergeThrew>>
trVars == <<trFn, trCell, trMapping, trOut, trDoc, trDocNow>>
matchVars ==
    <<csvHeader, fields, fieldIndex, bestMatch, bestConfidence, matchResult,
      matchPc, initialEntry>>
flatVars ==
    <<schemaFields, hasConfig, responses, flatSync, flatIndex, flattened,
      flatPc>>
logVars == <<logs, hookLogs>>
stepVars == <<csvHeaders, fieldMapping, activeTab, stepMapping>>
importVars ==
    <<csvRows, importMapping, shouldPublish, repository, isImporting,
      shouldStop, results, runs, started, faults>>
pageVars ==
    <<pageConfig, csvData, pageFieldMapping, pageActiveTab, formConfig,
      localStorage, importToken>>
laterVars == <<logVars, stepVars, importVars, pageVars>>
vars == <<rowVars, mergeVars, trVars, matchVars, flatVars, laterVars>>
notRowVars == <<mergeVars, trVars, matchVars, flatVars, laterVars>>
notMergeVars == <<rowVars, trVars, matchVars, flatVars, laterVars>>
notTrVars == <<rowVars, mergeVars, matchVars, flatVars, laterVars>>
notMatchVars == <<rowVars, mergeVars, trVars, flatVars, laterVars>>
notFlatVars == <<rowVars, mergeVars, trVars, matchVars, laterVars>>
earlierVars == <<rowVars, mergeVars, trVars, matchVars, flatVars>>
notLogVars == <<earlierVars, stepVars, importVars, pageVars>>
notStepVars == <<earlierVars, logVars, importVars, pageVars>>
notImportVars == <<earlierVars, logVars, stepVars, pageVars>>
notPageVars == <<earlierVars, logVars, stepVars, importVars>>

(***************************************************************************)
(* Bounds and inputs                                                       *)
(***************************************************************************)

\* the longest fieldMapping list a row is built from
MaxCols == 2
\* the longest sequence of mergeNestedData calls
MaxMerges == 3
\* the most entries the two log stores receive together
MaxLogs == 3
\* the most rows of a CSV file
MaxRows == 3
\* the most calls of startImport
MaxRuns == 2
\* the most transport calls that fail
MaxFaults == 1

\* the header of the k-th CSV column
Header(k) == <<"c", Digits[k + 1]>>

OptBob == <<SelectOption(<<"b", "o", "b">>, <<"B", "o", "b">>)>>

\* the targets a column can be mapped to: [field, type, required, blockType,
\* parentField, options], as the mapping step copies them from the flattened
\* field, plus the skip sentinel of the import step
RowTargets ==
    { <<<<"t", "i", "t", "l", "e">>, "text", TRUE, NoStr, NoStr, <<>> >>,
      <<<<"a", "g", "e">>, "number", FALSE, NoStr, NoStr, <<>> >>,
      <<<<"a", "c", "t", "i", "v", "e">>, "boolean", FALSE, NoStr, NoStr, <<>> >>,
      <<<<"b", "i", "r", "t", "h">>, "date", FALSE, NoStr, NoStr, <<>> >>,
      <<<<"p", "h", "o", "t", "o">>, "file", FALSE, NoStr, NoStr, <<>> >>,
      <<<<"c", "o", "l", "o", "r">>, "select", FALSE, NoStr, NoStr, OptBob>>,
      <<<<"c", "o", "n", "t", "e", "n", "t", ".", "h", "e", "r", "o", ".", "h", "e", "a", "d", "l", "i", "n", "e">>, "text", FALSE, <<"h", "e", "r", "o">>, <<"c", "o", "n", "t", "e", "n", "t">>, <<>> >>,
      <<<<"c", "o", "n", "t", "e", "n", "t", ".", "h", "e", "r", "o", ".", "c", "o", "u", "n", "t">>, "number", FALSE, <<"h", "e", "r", "o">>, <<"c", "o", "n", "t", "e", "n", "t">>, <<>> >>,
      <<<<"s", "e", "o", ".", "m", "e", "t", "a">>, "text", FALSE, NoStr, <<"s", "e", "o">>, <<>> >>,
      <<<<"s", "e", "o", ".", "s", "o", "c", "i", "a", "l">>, "text", FALSE, NoStr, <<"s", "e", "o">>, <<>> >>,
      <<<<"s", "e", "o", ".", "s", "o", "c", "i", "a", "l", ".", "s", "c", "o", "r", "e">>, "number", FALSE, NoStr, <<"s", "o", "c", "i", "a", "l">>, <<>> >>,
      <<<<"s", "e", "o">>, "global_field", FALSE, NoStr, NoStr, <<>> >>,
      <<<<"s", "k", "i", "p">>, "text", FALSE, NoStr, NoStr, <<>> >> }

TargetMapping(k, t) == Mapping(Header(k), t[1], t[2], t[3], t[4], t[5], t[6])

\* the mappings the k-th column can have
MappingsAt(k) == { TargetMapping(k, t) : t \in RowTargets }

\* the cells of a row: parseCsv trims every cell and reads a missing one as ''
RowCells ==
    { <<>>, <<"B", "o", "b">>, <<"W", "e", "l", "c", "o", "m", "e">>, <<"o", "o", "p", "s">>, <<"3", "0">>, <<"T", "R", "U", "E">>, <<"2", "0", "2", "4", "-", "0", "1", "-", "1", "5">> }

\* a cell a mapping can meet: date columns take the cells on which the
\* engines' date parsers agree
CellFor(m, cell) ==
    m.fieldType = "date" /\ cell # NoStr => DateDefined(cell)

(***************************************************************************)
(* handleCreateOrUpdateEntry: the loop that builds the row's document      *)
(***************************************************************************)

\* if (csvValue): undefined and '' are falsy
CellTruthy(cell) == cell # NoStr /\ cell # <<>>

\* the last segment and the first segment of a path
LastPart(path) == SplitPath(path)[Len(SplitPath(path))]
FirstPart(path) == SplitPath(path)[1]

\* the merge of one transformed value into the document (lines 285-292)
MergeCell(data, mapping, transformedValue) ==
    IF mapping.fieldType = "global_field"
    THEN MergeNestedData(data,
             Obj(<<Entry(LastPart(mapping.contentstackField),
                         transformedValue)>>),
             FirstPart(mapping.contentstackField))
    ELSE MergeNestedData(data, transformedValue, mapping.contentstackField)

\* one iteration of the loop: what becomes of the document and of the row
Iterated(pc, data) == [pc |-> pc, data |-> data]

\* lines 273-292, transformedValue being what transformNestedValue returned
MergeTransformed(data, mapping, transformedValue) ==
    IF transformedValue = Null THEN Iterated("loop", data)
    ELSE Only({ IF m.threw THEN Iterated("error", data)
                ELSE Iterated("loop", m.result) :
                m \in {MergeCell(data, mapping, transformedValue)} })

RowIteration(data, mapping, cell) ==
    IF mapping.contentstackField = <<"s", "k", "i", "p">> THEN Iterated("loop", data)
    ELSE IF ~CellTruthy(cell) /\ mapping.isRequired
    THEN Iterated("failed", data)
    ELSE IF ~CellTruthy(cell) THEN Iterated("loop", data)
    ELSE Only({ MergeTransformed(data, mapping, t) :
                t \in {TransformNestedValue(cell, mapping.contentstackField,
                                            mapping)} })

\* the entry addLog makes: its type and the rowIndex it is given
LogEntry(type, rowIndex) == [type |-> type, rowIndex |-> rowIndex]

\* the addLog calls of one iteration of the loop, and of the catch of the
\* handler when the merge throws
IterationLogs(data, mapping, cell, rowIndex) ==
    IF mapping.contentstackField = <<"s", "k", "i", "p">> THEN <<>>
    ELSE IF ~CellTruthy(cell) /\ mapping.isRequired
    THEN <<LogEntry("warning", rowIndex)>>
    ELSE IF ~CellTruthy(cell) THEN <<>>
    ELSE
      LET t == TransformNestedValue(cell, mapping.contentstackField, mapping)
      IN  IF t = Null
          THEN IF mapping.fieldType = "file"
               THEN <<LogEntry("info", rowIndex)>>
               ELSE IF mapping.fieldType = "select"
               THEN <<LogEntry("warning", rowIndex)>>
               ELSE <<>>
          ELSE IF MergeCell(data, mapping, t).threw
          THEN <<LogEntry("error", rowIndex)>>
          ELSE (IF mapping.fieldType = "global_field"
                THEN <<LogEntry("info", rowIndex)>> ELSE <<>>)
               \o (IF mapping.fieldType = "select"
                   THEN <<LogEntry("info", rowIndex)>> ELSE <<>>)

\* one iteration of the loop of handleCreateOrUpdateEntry: it goes on to the
\* next mapping ("loop"), gives the row up for a required field whose cell
\* is empty ("failed"), or lands in the catch of the handler ("error"); the
\* first iteration follows the call, which brings the rowIndex
ProcessMapping ==
    \E mapping \in MappingsAt(rowStep + 1), cell \in RowCells,
       index \in 0..(MaxRows - 1) :
        /\ rowPc = "loop"
        /\ rowStep < MaxCols
        /\ CellFor(mapping, cell)
        /\ rowStep > 0 => index = handlerRowIndex
        /\ handlerRowIndex' = index
        /\ \E made \in {IterationLogs(entryData, mapping, cell, index)} :
               rowLogs' = rowLogs \o made
        /\ lastRowLogs' = rowLogs
        /\ \E it \in {RowIteration(entryData, mapping, cell)} :
              /\ entryData' = it.data
              /\ rowPc' = it.pc
        /\ rowStep' = rowStep + 1
        /\ lastMapping' = mapping
        /\ lastCell' = cell
        /\ lastEntryData' = entryData
        /\ UNCHANGED notRowVars

\* the list of mappings is exhausted: the document is complete
RowBuilt ==
    /\ rowPc = "loop"
    /\ rowPc' = "built"
    /\ rowLogs' = Append(rowLogs, LogEntry("info", handlerRowIndex))
    /\ UNCHANGED <<entryData, rowStep, lastMapping, lastCell, lastEntryData,
                   handlerRowIndex, lastRowLogs>>
    /\ UNCHANGED notRowVars

NoMapping == Mapping(NoStr, NoStr, "text", FALSE, NoStr, NoStr, <<>>)

RowInit ==
    /\ entryData = EmptyObj
    /\ rowStep = 0
    /\ rowPc = "loop"
    /\ lastMapping = NoMapping
    /\ lastCell = NoStr
    /\ lastEntryData = EmptyObj
    /\ handlerRowIndex = 0
    /\ rowLogs = <<>>
    /\ lastRowLogs = <<>>

(***************************************************************************)
(* mergeNestedData called again and again on the document it returned      *)
(***************************************************************************)

\* the calls: a path and the newData transformNestedValue makes for it
MergeTargets ==
    { <<<<"t", "i", "t", "l", "e">>, "text", FALSE, NoStr, NoStr, <<>> >>,
      <<<<"c", "o", "n", "t", "e", "n", "t">>, "text", FALSE, NoStr, NoStr, <<>> >>,
      <<<<"c", "o", "n", "t", "e", "n", "t", ".", "h", "e", "r", "o", ".", "h", "e", "a", "d", "l", "i", "n", "e">>, "text", FALSE, <<"h", "e", "r", "o">>, <<"c", "o", "n", "t", "e", "n", "t">>, <<>> >>,
      <<<<"c", "o", "n", "t", "e", "n", "t", ".", "h", "e", "r", "o", ".", "s", "u", "b", "t", "i", "t", "l", "e">>, "text", FALSE, <<"h", "e", "r", "o">>, <<"c", "o", "n", "t", "e", "n", "t">>, <<>> >>,
      <<<<"c", "o", "n", "t", "e", "n", "t", ".", "c", "t", "a", ".", "l", "a", "b", "e", "l">>, "text", FALSE, <<"c", "t", "a">>, <<"c", "o", "n", "t", "e", "n", "t">>, <<>> >>,
      <<<<"s", "e", "o">>, "number", FALSE, NoStr, NoStr, <<>> >>,
      <<<<"s", "e", "o", ".", "m", "e", "t", "a">>, "text", FALSE, NoStr, <<"s", "e", "o">>, <<>> >>,
      <<<<"s", "e", "o", ".", "s", "o", "c", "i", "a", "l">>, "text", FALSE, NoStr, <<"s", "e", "o">>, <<>> >>,
      <<<<"s", "e", "o", ".", "s", "o", "c", "i", "a", "l", ".", "s", "c", "o", "r", "e">>, "number", FALSE, NoStr, <<"s", "o", "c", "i", "a", "l">>, <<>> >>,
      <<<<"s", "e", "o", ".", "m", "o", "d", "u", "l", "a", "r", "_", "b", "l", "o", "c", "k", "s", ".", "h", "e", "r", "o", ".", "h", "e", "a", "d", "l", "i", "n", "e">>, "text", FALSE, <<"h", "e", "r", "o">>,
        <<"m", "o", "d", "u", "l", "a", "r", "_", "b", "l", "o", "c", "k", "s">>, <<>> >> }

MergeCells == { <<"x">>, <<"3", "0">>, <<"o", "o", "p", "s">> }

MergeCallTaken(path, newData, threw) ==
    /\ mergeCount < MaxMerges
    /\ ~mergeThrew
    /\ \E m \in {MergeNestedData(mergeDoc, newData, path)} :
          /\ m.threw = threw
          /\ mergeDoc' = IF threw THEN mergeDoc ELSE m.result
          /\ mergeInputNow' = m.input
    /\ mergeInput' = mergeDoc
    /\ mergePath' = path
    /\ mergeNew' = newData
    /\ mergeThrew' = threw
    /\ mergeCount' = mergeCount + 1
    /\ UNCHANGED notMergeVars

\* a call that returns
MergeCall ==
    \E t \in MergeTargets, cell \in MergeCells :
        \E newData \in {TransformNestedValue(cell, t[1], TargetMapping(0, t))} :
            MergeCallTaken(t[1], newData, FALSE)

\* a call that throws a TypeError
MergeCallThrows ==
    \E t \in MergeTargets, cell \in MergeCells :
        \E newData \in {TransformNestedValue(cell, t[1], TargetMapping(0, t))} :
            MergeCallTaken(t[1], newData, TRUE)

MergeInit ==
    /\ mergeDoc = EmptyObj
    /\ mergeCount = 0
    /\ mergePath = NoStr
    /\ mergeNew = Undefined
    /\ mergeInput = EmptyObj
    /\ mergeInputNow = EmptyObj
    /\ mergeThrew = FALSE

(***************************************************************************)
(* Single calls of transformNestedValue and of the two transformValue      *)
(***************************************************************************)

FieldTypes ==
    { "text", "number", "boolean", "date", "reference", "file", "blocks",
      "global_field", "link", "select" }

\* the shapes of a field path: [path, blockType, parentField]
PathShapes ==
    { <<<<"a", "g", "e">>, NoStr, NoStr>>,
      <<<<"s", "e", "o", ".", "m", "e", "t", "a">>, NoStr, <<"s", "e", "o">>>>,
      <<<<"s", "e", "o", ".", "s", "o", "c", "i", "a", "l", ".", "s", "c", "o", "r", "e">>, NoStr, <<"s", "o", "c", "i", "a", "l">>>>,
      <<<<"c", "o", "n", "t", "e", "n", "t", ".", "h", "e", "r", "o", ".", "c", "o", "u", "n", "t">>, <<"h", "e", "r", "o">>, <<"c", "o", "n", "t", "e", "n", "t">>>>,
      <<<<"s", "e", "o", ".", "m", "o", "d", "u", "l", "a", "r", "_", "b", "l", "o", "c", "k", "s", ".", "h", "e", "r", "o", ".", "c", "o", "u", "n", "t">>, <<"h", "e", "r", "o">>, <<"m", "o", "d", "u", "l", "a", "r", "_", "b", "l", "o", "c", "k", "s">>>> }

TransformMappings ==
    { m \in { Mapping(Header(1), p[1], type, FALSE, p[2], p[3], options) :
                p \in PathShapes, type \in FieldTypes,
                options \in {OptBob, <<>>} } :
        m.fieldType = "select" \/ m.selectOptions = <<>> }

\* the arguments: cells as a CSV file holds them, and the untrimmed and
\* undefined ones a caller other than the row loop may pass
TransformCells ==
    { NoStr, <<>>, <<" ">>, <<" ", "\t">>, <<"t", "r", "u", "e">>, <<"T", "R", "U", "E">>, <<"T", "r", "u", "e">>, <<"1">>,
      <<"f", "a", "l", "s", "e">>, <<"F", "A", "L", "S", "E">>, <<"0">>, <<"y", "e", "s">>, <<" ", "t", "r", "u", "e">>, <<"3", "0">>, <<"3", ".", "5">>, <<"o", "o", "p", "s">>,
      <<"B", "o", "b">>, <<"B", "O", "B">>, <<"B", "o">>, <<"2", "0", "2", "4", "-", "0", "1", "-", "1", "5">>, <<"2", "0", "2", "4", "-", "1", "3", "-", "4", "0">> }

\* the documents an iteration starts from
TransformDocs == { EmptyObj, Obj(<<Entry(<<"t", "i", "t", "l", "e">>, Str(<<"B", "o", "b">>))>>) }

\* one iteration of the row loop on a cell, transformNestedValue included
CallTransformNested ==
    \E m \in TransformMappings, cell \in TransformCells, doc \in TransformDocs :
        /\ trFn = "none"
        /\ CellFor(m, cell)
        /\ trFn' = "nested"
        /\ trCell' = cell
        /\ trMapping' = m
        /\ trOut' = TransformNestedValue(cell, m.contentstackField, m)
        /\ trDoc' = doc
        /\ trDocNow' = RowIteration(doc, m, cell).data
        /\ UNCHANGED notTrVars

\* transformValue of useImportOperations.tsx
CallTransformValue ==
    \E m \in TransformMappings, cell \in TransformCells :
        /\ trFn = "none"
        /\ CellFor(m, cell)
        /\ trFn' = "hook"
        /\ trCell' = cell
        /\ trMapping' = m
        /\ trOut' = TransformValue(cell, m)
        /\ trDoc' = EmptyObj
        /\ trDocNow' = EmptyObj
        /\ UNCHANGED notTrVars

\* transformValue of ImportProgress.tsx, lines 492-507
CallLegacyTransformValue ==
    \E m \in TransformMappings, cell \in TransformCells :
        /\ trFn = "none"
        /\ CellFor(m, cell)
        /\ trFn' = "legacy"
        /\ trCell' = cell
        /\ trMapping' = m
        /\ trOut' = LegacyTransformValue(cell, m.fieldType)
        /\ trDoc' = EmptyObj
        /\ trDocNow' = EmptyObj
        /\ UNCHANGED notTrVars

TransformInit ==
    /\ trFn = "none"
    /\ trCell = NoStr
    /\ trMapping = NoMapping
    /\ trOut = Undefined
    /\ trDoc = EmptyObj
    /\ trDocNow = EmptyObj

(***************************************************************************)
(* FieldMatcher: normalizeText, getTextVariations, findMatchingField       *)
(***************************************************************************)

\* a FlattenedField (types/contentstack.ts); absent optional strings are
\* NoStr
Flattened(uid, display_name, data_type, mandatory, fieldPath, parentField, blockType) ==
    [uid |-> uid, display_name |-> display_name, data_type |-> data_type,
     mandatory |-> mandatory, fieldPath |-> fieldPath,
     parentField |-> parentField, blockType |-> blockType]

\* the null of matchingField and of bestMatch
NoField == Flattened(NoStr, NoStr, NoStr, FALSE, NoStr, NoStr, NoStr)

\* replace(/[^a-z0-9\s]/g, '')
KeepWordChars(s) ==
    SelectSeq(s, LAMBDA c : IsLowerAlpha(c) \/ IsDigit(c) \/ IsSpace(c))

\* the length of the run of whitespace of s that starts at position i
RECURSIVE SpaceRun(_, _)
SpaceRun(s, i) ==
    IF i > Len(s) \/ ~IsSpace(s[i]) THEN 0 ELSE 1 + SpaceRun(s, i + 1)

\* replace(/\s+/g, ' ') from position i on
RECURSIVE CollapseSpaces(_, _)
CollapseSpaces(s, i) ==
    IF i > Len(s) THEN <<>>
    ELSE IF IsSpace(s[i]) THEN <<" ">> \o CollapseSpaces(s, i + SpaceRun(s, i))
    ELSE <<s[i]>> \o CollapseSpaces(s, i + 1)

NormalizeText(text) ==
    Trim(CollapseSpaces(KeepWordChars(ToLowerCase(text)), 1))

\* replace(/\s/g, '') and replace(/\s/g, '_')
RemoveSpaces(s) == SelectSeq(s, LAMBDA c : ~IsSpace(c))
UnderscoreSpaces(s) == [i \in 1..Len(s) |-> IF IsSpace(s[i]) THEN "_" ELSE s[i]]

\* replace(/display\s*/g, '') from position i on
RECURSIVE RemoveDisplay(_, _)
RemoveDisplay(s, i) ==
    IF i > Len(s) THEN <<>>
    ELSE IF StartsAt(s, <<"d", "i", "s", "p", "l", "a", "y">>, i)
    THEN RemoveDisplay(s, i + 7 + SpaceRun(s, i + 7))
    ELSE <<s[i]>> \o RemoveDisplay(s, i + 1)

\* replace(/\s*title\s*/g, 'title') from position i on
RECURSIVE TightenTitle(_, _)
TightenTitle(s, i) ==
    IF i > Len(s) THEN <<>>
    ELSE IF StartsAt(s, <<"t", "i", "t", "l", "e">>, i + SpaceRun(s, i))
    THEN <<"t", "i", "t", "l", "e">>
         \o TightenTitle(s, i + SpaceRun(s, i) + 5
                               + SpaceRun(s, i + SpaceRun(s, i) + 5))
    ELSE <<s[i]>> \o TightenTitle(s, i + 1)

\* the table of common field names: a key and its values
CommonNames ==
    { <<<<"t", "i", "t", "l", "e">>, {<<"d", "i", "s", "p", "l", "a", "y", " ", "t", "i", "t", "l", "e">>, <<"e", "n", "t", "r", "y", " ", "t", "i", "t", "l", "e">>, <<"n", "a", "m", "e">>}>>,
      <<<<"b", "o", "d", "y">>, {<<"c", "o", "n", "t", "e", "n", "t">>, <<"d", "e", "s", "c", "r", "i", "p", "t", "i", "o", "n">>, <<"t", "e", "x", "t">>}>>,
      <<<<"u", "r", "l">>, {<<"l", "i", "n", "k">>, <<"h", "r", "e", "f">>, <<"w", "e", "b", "s", "i", "t", "e">>}>>,
      <<<<"p", "u", "b", "l", "i", "c", "a", "t", "i", "o", "n", " ", "d", "a", "t", "e">>,
        {<<"p", "u", "b", "l", "i", "s", "h", "e", "d", " ", "d", "a", "t", "e">>, <<"p", "u", "b", "l", "i", "s", "h", " ", "d", "a", "t", "e">>, <<"d", "a", "t", "e", " ", "p", "u", "b", "l", "i", "s", "h", "e", "d">>}>>,
      <<<<"e", "x", "p", "i", "r", "a", "t", "i", "o", "n", " ", "d", "a", "t", "e">>, {<<"e", "x", "p", "i", "r", "e", " ", "d", "a", "t", "e">>, <<"e", "n", "d", " ", "d", "a", "t", "e">>, <<"e", "x", "p", "i", "r", "e", "s">>}>> }

\* the variations of a normalized text, as a set: the array has no
\* duplicates and is only searched
VariationsOf(normalized) ==
    { normalized, RemoveSpaces(normalized), UnderscoreSpaces(normalized),
      RemoveDisplay(normalized, 1), TightenTitle(normalized, 1) }
    \cup { m[1] : m \in { c \in CommonNames :
                            \E v \in c[2] : Includes(normalized, v) } }
    \cup UNION { m[2] : m \in { c \in CommonNames : c[1] = normalized } }

GetTextVariations(text) ==
    UNION { VariationsOf(n) : n \in {NormalizeText(text)} }

FieldVariations(field) ==
    GetTextVariations(field.uid) \cup GetTextVariations(field.display_name)
        \cup GetTextVariations(field.fieldPath)

\* the exact comparisons without the one of the uid
ExactConfidenceWithoutUid(header, field) ==
    IF field.display_name = header THEN 95
    ELSE IF field.fieldPath = header THEN 90
    ELSE 0

\* the confidence of the return a field makes the loop take, 0 when it
\* makes none
ExactConfidence(header, field) ==
    IF field.uid = header THEN 100
    ELSE IF field.display_name = header THEN 95
    ELSE IF field.fieldPath = header THEN 90
    ELSE 0

\* the local confidence after the two loops over the variations
VariationConfidence(header, field) ==
    IF \E v \in GetTextVariations(header) \cap FieldVariations(field) :
           Len(v) > 2
    THEN 80 ELSE 0

MatchResult(matchingField, confidence) ==
    [matchingField |-> matchingField, confidence |-> confidence]

\* the return after the loop
BestOrNone(match, confidence) ==
    IF match # NoField /\ confidence >= 70 THEN MatchResult(match, confidence)
    ELSE MatchResult(NoField, 0)

\* getFieldType (fieldUtils.ts)
GetFieldType(dataType) ==
    CASE dataType = <<"n", "u", "m", "b", "e", "r">> -> "number"
      [] dataType = <<"b", "o", "o", "l", "e", "a", "n">> -> "boolean"
      [] dataType = <<"i", "s", "o", "d", "a", "t", "e">> -> "date"
      [] dataType = <<"r", "e", "f", "e", "r", "e", "n", "c", "e">> -> "reference"
      [] dataType = <<"f", "i", "l", "e">> -> "file"
      [] dataType = <<"b", "l", "o", "c", "k", "s">> -> "blocks"
      [] dataType = <<"g", "l", "o", "b", "a", "l", "_", "f", "i", "e", "l", "d">> -> "global_field"
      [] dataType = <<"l", "i", "n", "k">> -> "link"
      [] OTHER -> "text"

\* an entry that falls back on the header where no field matched
InitialEntryNamedByHeader(header, matchingField) ==
    IF matchingField # NoField
    THEN Mapping(header, matchingField.fieldPath,
                 GetFieldType(matchingField.data_type),
                 matchingField.mandatory, matchingField.blockType,
                 matchingField.parentField, <<>>)
    ELSE Mapping(header, header, "text", FALSE, NoStr, NoStr, <<>>)

\* the entry initializeMapping makes for a header and what the matcher
\* returned for it
InitialEntry(header, matchingField) ==
    IF matchingField # NoField
    THEN Mapping(header, matchingField.fieldPath,
                 GetFieldType(matchingField.data_type),
                 matchingField.mandatory, matchingField.blockType,
                 matchingField.parentField, <<>>)
    ELSE Mapping(header, <<"_", "_", "s", "k", "i", "p", "_", "_">>, "text", FALSE, NoStr, NoStr, <<>>)

\* the bound on the number of fields
MaxFields == 3

\* the fields of the lists
FieldPool ==
    { Flattened(<<"t", "i", "t", "l", "e">>, <<"T", "i", "t", "l", "e">>, <<"t", "e", "x", "t">>, TRUE, <<"t", "i", "t", "l", "e">>, NoStr, NoStr),
      Flattened(<<"h", "e", "a", "d", "i", "n", "g">>, <<"t", "i", "t", "l", "e">>, <<"t", "e", "x", "t">>, FALSE, <<"h", "e", "a", "d", "i", "n", "g">>, NoStr, NoStr),
      Flattened(<<"e", "n", "t", "r", "y", "_", "t", "i", "t", "l", "e">>, <<"E", "n", "t", "r", "y", " ", "T", "i", "t", "l", "e">>, <<"t", "e", "x", "t">>, FALSE,
                <<"e", "n", "t", "r", "y", "_", "t", "i", "t", "l", "e">>, NoStr, NoStr),
      Flattened(<<"u", "r", "l">>, <<"U", "R", "L">>, <<"l", "i", "n", "k">>, FALSE, <<"s", "e", "o", ".", "u", "r", "l">>, <<"s", "e", "o">>, NoStr),
      Flattened(<<"p", "r", "i", "c", "e">>, <<"D", "i", "s", "p", "l", "a", "y", " ", "P", "r", "i", "c", "e">>, <<"n", "u", "m", "b", "e", "r">>, FALSE,
                <<"c", "o", "n", "t", "e", "n", "t", ".", "o", "f", "f", "e", "r", ".", "p", "r", "i", "c", "e">>, <<"c", "o", "n", "t", "e", "n", "t">>, <<"o", "f", "f", "e", "r">>) }

FieldLists == UNION { [1..n -> FieldPool] : n \in 0..MaxFields }

MatchHeaders ==
    { <<"t", "i", "t", "l", "e">>, <<"T", "i", "t", "l", "e">>, <<"n", "a", "m", "e">>, <<"s", "e", "o", ".", "u", "r", "l">>, <<"W", "e", "b", "s", "i", "t", "e">>, <<"p", "r", "i", "c", "e">>,
      <<"P", "r", "i", "c", "e", " ">>, <<"i", "d">>, <<"a", "u", "t", "h", "o", "r">> }

\* findMatchingField is called
StartMatch ==
    \E header \in MatchHeaders, list \in FieldLists :
        /\ matchPc = "idle"
        /\ csvHeader' = header
        /\ fields' = list
        /\ fieldIndex' = 1
        /\ bestMatch' = NoField
        /\ bestConfidence' = 0
        /\ matchPc' = "loop"
        /\ UNCHANGED <<matchResult, initialEntry>>
        /\ UNCHANGED notMatchVars

\* one iteration of the loop over fields
CheckField ==
    /\ matchPc = "loop"
    /\ fieldIndex <= Len(fields)
    /\ \E exact \in {ExactConfidence(csvHeader, fields[fieldIndex])},
          confidence \in {VariationConfidence(csvHeader, fields[fieldIndex])} :
          IF exact > 0
          THEN /\ matchResult' = MatchResult(fields[fieldIndex], exact)
               /\ matchPc' = "returned"
               /\ UNCHANGED <<fieldIndex, bestMatch, bestConfidence>>
          ELSE /\ fieldIndex' = fieldIndex + 1
               /\ bestMatch' = IF confidence > bestConfidence
                               THEN fields[fieldIndex] ELSE bestMatch
               /\ bestConfidence' = IF confidence > bestConfidence
                                    THEN confidence ELSE bestConfidence
               /\ UNCHANGED <<matchResult, matchPc>>
    /\ UNCHANGED <<csvHeader, fields, initialEntry>>
    /\ UNCHANGED notMatchVars

\* the loop is over
FinishMatch ==
    /\ matchPc = "loop"
    /\ fieldIndex > Len(fields)
    /\ matchResult' = BestOrNone(bestMatch, bestConfidence)
    /\ matchPc' = "returned"
    /\ UNCHANGED <<csvHeader, fields, fieldIndex, bestMatch, bestConfidence,
                   initialEntry>>
    /\ UNCHANGED notMatchVars

\* initializeMapping makes the header's entry
InitializeEntry ==
    /\ matchPc = "returned"
    /\ initialEntry' = InitialEntry(csvHeader, matchResult.matchingField)
    /\ matchPc' = "mapped"
    /\ UNCHANGED <<csvHeader, fields, fieldIndex, bestMatch, bestConfidence,
                   matchResult>>
    /\ UNCHANGED notMatchVars

MatchInit ==
    /\ csvHeader = NoStr
    /\ fields = <<>>
    /\ fieldIndex = 1
    /\ bestMatch = NoField
    /\ bestConfidence = 0
    /\ matchResult = MatchResult(NoField, 0)
    /\ matchPc = "idle"
    /\ initialEntry = NoMapping

(***************************************************************************)
(* flattenContentstackFields and flattenContentstackFieldsSync             *)
(***************************************************************************)

\* a ContentstackField (types/contentstack.ts): reference_to is the uid it
\* names or NoStr, hasBlocks and hasSchema tell whether the optional blocks
\* and schema are there
Field(uid, display_name, data_type, mandatory, reference_to, hasBlocks, blocks, hasSchema, schema) ==
    [uid |-> uid, display_name |-> display_name, data_type |-> data_type,
     mandatory |-> mandatory, reference_to |-> reference_to,
     hasBlocks |-> hasBlocks, blocks |-> blocks, hasSchema |-> hasSchema,
     schema |-> schema]

\* a field with neither blocks nor schema
Leaf(uid, display_name, data_type, mandatory) ==
    Field(uid, display_name, data_type, mandatory, NoStr, FALSE, <<>>, FALSE,
          <<>>)

\* a BlockSchema
Block(title, uid, schema) == [title |-> title, uid |-> uid, schema |-> schema]

\* parentField || undefined
OrUndefined(s) == IF s = <<>> THEN NoStr ELSE s

\* parentPath ? `${parentPath}.${field.uid}` : field.uid
PathUnder(parentPath, uid) ==
    IF parentPath = <<>> THEN uid ELSE Dot(parentPath, uid)

\* the field itself, except for blocks
FieldItself(field, fieldPath, parentField) ==
    IF field.data_type # <<"b", "l", "o", "c", "k", "s">>
    THEN <<Flattened(field.uid, field.display_name, field.data_type,
                     field.mandatory, fieldPath, OrUndefined(parentField),
                     NoStr)>>
    ELSE <<>>

\* a block field's entry whose path leaves the block out
BlockFieldWithoutBlock(field, fieldPath, block, blockField) ==
    Flattened(blockField.uid,
              field.display_name \o <<" ", ">", " ">> \o block.title \o <<" ", ">", " ">>
                  \o blockField.display_name,
              blockField.data_type, blockField.mandatory,
              Dot(fieldPath, blockField.uid),
              field.uid, block.uid)

\* a block field's entry that names no parent field
BlockFieldWithoutParent(field, fieldPath, block, blockField) ==
    Flattened(blockField.uid,
              field.display_name \o <<" ", ">", " ">> \o block.title \o <<" ", ">", " ">>
                  \o blockField.display_name,
              blockField.data_type, blockField.mandatory,
              Dot(Dot(fieldPath, block.uid), blockField.uid),
              NoStr, block.uid)

\* the entry of one field of one block
BlockField(field, fieldPath, block, blockField) ==
    Flattened(blockField.uid,
              field.display_name \o <<" ", ">", " ">> \o block.title \o <<" ", ">", " ">>
                  \o blockField.display_name,
              blockField.data_type, blockField.mandatory,
              Dot(Dot(fieldPath, block.uid), blockField.uid),
              field.uid, block.uid)

RECURSIVE BlocksFrom(_, _, _)
\* the entries of the fields of the blocks from position j on
BlocksFrom(field, fieldPath, j) ==
    IF j > Len(field.blocks) THEN <<>>
    ELSE [i \in 1..Len(field.blocks[j].schema) |->
              BlockField(field, fieldPath, field.blocks[j],
                         field.blocks[j].schema[i])]
         \o BlocksFrom(field, fieldPath, j + 1)

\* the entries of a field's modular blocks
BlockFields(field, fieldPath) ==
    IF field.data_type = <<"b", "l", "o", "c", "k", "s">> /\ field.hasBlocks
    THEN BlocksFrom(field, fieldPath, 1)
    ELSE <<>>

\* the description of a response that is not ok
ErrorDescription(status) ==
    CASE status = 422 -> <<"i", "n", "v", "a", "l", "i", "d", " ", "c", "r", "e", "d", "e", "n", "t", "i", "a", "l", "s", " ", "o", "r", " ", "f", "i", "e", "l", "d", " ", "n", "o", "t", " ", "a", "c", "c", "e", "s", "s", "i", "b", "l", "e">>
      [] status = 404 -> <<"g", "l", "o", "b", "a", "l", " ", "f", "i", "e", "l", "d", " ", "n", "o", "t", " ", "f", "o", "u", "n", "d">>
      [] status = 401 -> <<"u", "n", "a", "u", "t", "h", "o", "r", "i", "z", "e", "d", " ", "a", "c", "c", "e", "s", "s">>
      [] OTHER -> <<"s", "c", "h", "e", "m", "a", " ", "u", "n", "a", "v", "a", "i", "l", "a", "b", "l", "e">>

\* nothing pushed for a global field that could not be resolved
BasicGlobalFieldDropped(field, fieldPath, parentField, description) == <<>>

\* the global field itself as a basic field, its display name annotated
BasicGlobalField(field, fieldPath, parentField, description) ==
    <<Flattened(field.uid,
                field.display_name \o <<" ", "(", "g", "l", "o", "b", "a", "l", " ", "f", "i", "e", "l", "d", " ", "-", " ">> \o description
                    \o <<")">>,
                <<"g", "l", "o", "b", "a", "l", "_", "f", "i", "e", "l", "d">>, field.mandatory, fieldPath,
                OrUndefined(parentField), NoStr)>>

\* the schemas the platform holds for the global fields
GlobalFieldSchema(uid) ==
    IF uid = <<"a", "u", "t", "h", "o", "r", "_", "g", "f">>
    THEN <<Leaf(<<"n", "a", "m", "e">>, <<"N", "a", "m", "e">>, <<"t", "e", "x", "t">>, TRUE),
           Field(<<"b", "i", "o">>, <<"B", "i", "o">>, <<"g", "l", "o", "b", "a", "l", "_", "f", "i", "e", "l", "d">>, FALSE, <<"b", "i", "o", "_", "g", "f">>, FALSE,
                 <<>>, FALSE, <<>>)>>
    ELSE IF uid = <<"b", "i", "o", "_", "g", "f">>
    THEN <<Leaf(<<"s", "u", "m", "m", "a", "r", "y">>, <<"S", "u", "m", "m", "a", "r", "y">>, <<"t", "e", "x", "t">>, FALSE)>>
    ELSE <<>>

\* what became of a global field's schema: the schema to descend into and
\* the entries pushed in its place; status 0 stands for a fetch that throws
Resolved(schema, pushed) == [schema |-> schema, pushed |-> pushed]

ResolveGlobalField(field, fieldPath, parentField, config, answers) ==
    IF field.hasSchema THEN Resolved(field.schema, <<>>)
    ELSE IF StrTruthy(field.reference_to) /\ config
    THEN IF answers[field.reference_to] \in 200..299
         THEN Resolved(GlobalFieldSchema(field.reference_to), <<>>)
         ELSE IF answers[field.reference_to] = 0
         THEN Resolved(<<>>, BasicGlobalField(field, fieldPath, parentField,
                                              <<"n", "e", "t", "w", "o", "r", "k", " ", "e", "r", "r", "o", "r">>))
         ELSE Resolved(<<>>,
                  BasicGlobalField(field, fieldPath, parentField,
                      ErrorDescription(answers[field.reference_to])))
    ELSE Resolved(<<>>, BasicGlobalField(field, fieldPath, parentField,
                                         <<"n", "o", " ", "c", "o", "n", "f", "i", "g">>))

RECURSIVE FlattenContentstackFields(_, _, _, _, _, _)
RECURSIVE FlattenField(_, _, _, _, _)

\* what one iteration of the loop pushes for a field
FlattenField(field, parentPath, parentField, config, answers) ==
    LET fieldPath == PathUnder(parentPath, field.uid)
    IN  FieldItself(field, fieldPath, parentField)
        \o BlockFields(field, fieldPath)
        \o IF field.data_type = <<"g", "l", "o", "b", "a", "l", "_", "f", "i", "e", "l", "d">>
           THEN Only({ r.pushed
                       \o FlattenContentstackFields(r.schema, 1, fieldPath,
                              field.uid, config, answers) :
                       r \in {ResolveGlobalField(field, fieldPath, parentField,
                                                 config, answers)} })
           ELSE <<>>

\* flattenContentstackFields from the field at position i on
FlattenContentstackFields(list, i, parentPath, parentField, config, answers) ==
    IF i > Len(list) THEN <<>>
    ELSE FlattenField(list[i], parentPath, parentField, config, answers)
         \o FlattenContentstackFields(list, i + 1, parentPath, parentField,
                                      config, answers)

RECURSIVE Fetched(_, _, _, _)
\* the global fields whose schema flattenContentstackFields asks the
\* platform for, from the field at position i on
Fetched(list, i, config, answers) ==
    IF i > Len(list) THEN {}
    ELSE (IF list[i].data_type # <<"g", "l", "o", "b", "a", "l", "_", "f", "i", "e", "l", "d">> THEN {}
          ELSE IF list[i].hasSchema
          THEN Fetched(list[i].schema, 1, config, answers)
          ELSE IF StrTruthy(list[i].reference_to) /\ config
          THEN {list[i].reference_to}
               \cup IF answers[list[i].reference_to] \in 200..299
                    THEN Fetched(GlobalFieldSchema(list[i].reference_to), 1,
                                 config, answers)
                    ELSE {}
          ELSE {})
         \cup Fetched(list, i + 1, config, answers)

\* an iteration of the synchronous function that leaves the schema of a
\* global field aside
FlattenFieldSyncWithoutNested(field, parentPath, parentField) ==
    LET fieldPath == PathUnder(parentPath, field.uid)
    IN  FieldItself(field, fieldPath, parentField)
        \o BlockFields(field, fieldPath)

RECURSIVE FlattenContentstackFieldsSync(_, _, _, _)
RECURSIVE FlattenFieldSync(_, _, _)

\* what one iteration of the forEach of the synchronous function pushes
FlattenFieldSync(field, parentPath, parentField) ==
    LET fieldPath == PathUnder(parentPath, field.uid)
    IN  FieldItself(field, fieldPath, parentField)
        \o BlockFields(field, fieldPath)
        \o IF field.data_type = <<"g", "l", "o", "b", "a", "l", "_", "f", "i", "e", "l", "d">> /\ field.hasSchema
           THEN FlattenContentstackFieldsSync(field.schema, 1, fieldPath,
                                              field.uid)
           ELSE <<>>

FlattenContentstackFieldsSync(list, i, parentPath, parentField) ==
    IF i > Len(list) THEN <<>>
    ELSE FlattenFieldSync(list[i], parentPath, parentField)
         \o FlattenContentstackFieldsSync(list, i + 1, parentPath, parentField)

\* the bound on the number of top-level fields of a schema
MaxSchema == 2

HeroBlock ==
    Block(<<"H", "e", "r", "o">>, <<"h", "e", "r", "o">>,
          <<Leaf(<<"h", "e", "a", "d", "l", "i", "n", "e">>, <<"H", "e", "a", "d", "l", "i", "n", "e">>, <<"t", "e", "x", "t">>, TRUE),
            Leaf(<<"c", "o", "u", "n", "t">>, <<"C", "o", "u", "n", "t">>, <<"n", "u", "m", "b", "e", "r">>, FALSE)>>)

CtaBlock == Block(<<"C", "T", "A">>, <<"c", "t", "a">>, <<Leaf(<<"l", "a", "b", "e", "l">>, <<"L", "a", "b", "e", "l">>, <<"t", "e", "x", "t">>, FALSE)>>)

\* the top-level fields of the schemas
SchemaPool ==
    { Leaf(<<"t", "i", "t", "l", "e">>, <<"T", "i", "t", "l", "e">>, <<"t", "e", "x", "t">>, TRUE),
      Field(<<"c", "o", "n", "t", "e", "n", "t">>, <<"C", "o", "n", "t", "e", "n", "t">>, <<"b", "l", "o", "c", "k", "s">>, FALSE, NoStr, TRUE,
            <<HeroBlock, CtaBlock>>, FALSE, <<>>),
      Field(<<"s", "e", "o">>, <<"S", "E", "O">>, <<"g", "l", "o", "b", "a", "l", "_", "f", "i", "e", "l", "d">>, FALSE, <<"s", "e", "o", "_", "g", "f">>, FALSE, <<>>,
            TRUE,
            <<Leaf(<<"m", "e", "t", "a">>, <<"M", "e", "t", "a">>, <<"t", "e", "x", "t">>, FALSE),
              Field(<<"s", "e", "c", "t", "i", "o", "n", "s">>, <<"S", "e", "c", "t", "i", "o", "n", "s">>, <<"b", "l", "o", "c", "k", "s">>, FALSE, NoStr, TRUE,
                    <<HeroBlock>>, FALSE, <<>>)>>),
      Field(<<"a", "u", "t", "h", "o", "r">>, <<"A", "u", "t", "h", "o", "r">>, <<"g", "l", "o", "b", "a", "l", "_", "f", "i", "e", "l", "d">>, TRUE, <<"a", "u", "t", "h", "o", "r", "_", "g", "f">>, FALSE,
            <<>>, FALSE, <<>>),
      Field(<<"l", "e", "g", "a", "l">>, <<"L", "e", "g", "a", "l">>, <<"g", "l", "o", "b", "a", "l", "_", "f", "i", "e", "l", "d">>, FALSE, NoStr, FALSE, <<>>,
            FALSE, <<>>) }

\* the schemas: lists of fields with distinct uids
Schemas ==
    { list \in UNION { [1..n -> SchemaPool] : n \in 0..MaxSchema } :
        \A i, j \in 1..Len(list) : i # j => list[i].uid # list[j].uid }

\* the global fields a fetch may ask for, and the statuses of the answers
GlobalRefs == { <<"a", "u", "t", "h", "o", "r", "_", "g", "f">>, <<"b", "i", "o", "_", "g", "f">> }
Statuses == { 200, 401, 404, 422, 500, 0 }

\* a flatten function is called
StartFlatten ==
    \E list \in Schemas, config \in BOOLEAN, sync \in BOOLEAN,
       answers \in [GlobalRefs -> Statuses] :
        /\ flatPc = "idle"
        /\ sync => ~config /\ \A r \in GlobalRefs : answers[r] = 200
        /\ schemaFields' = list
        /\ hasConfig' = config
        /\ responses' = answers
        /\ flatSync' = sync
        /\ flatIndex' = 1
        /\ flattened' = <<>>
        /\ flatPc' = "loop"
        /\ UNCHANGED notFlatVars

\* one iteration of the outermost loop of flattenContentstackFields
FlattenNextField ==
    /\ flatPc = "loop"
    /\ ~flatSync
    /\ flatIndex <= Len(schemaFields)
    /\ flattened' = flattened
           \o FlattenField(schemaFields[flatIndex], <<>>, <<>>, hasConfig,
                           responses)
    /\ flatIndex' = flatIndex + 1
    /\ UNCHANGED <<schemaFields, hasConfig, responses, flatSync, flatPc>>
    /\ UNCHANGED notFlatVars

\* one iteration of the outermost forEach of flattenContentstackFieldsSync
FlattenNextFieldSync ==
    /\ flatPc = "loop"
    /\ flatSync
    /\ flatIndex <= Len(schemaFields)
    /\ flattened' = flattened
           \o FlattenFieldSync(schemaFields[flatIndex], <<>>, <<>>)
    /\ flatIndex' = flatIndex + 1
    /\ UNCHANGED <<schemaFields, hasConfig, responses, flatSync, flatPc>>
    /\ UNCHANGED notFlatVars

\* return flattened
FlattenReturn ==
    /\ flatPc = "loop"
    /\ flatIndex > Len(schemaFields)
    /\ flatPc' = "done"
    /\ UNCHANGED <<schemaFields, hasConfig, responses, flatSync, flatIndex,
                   flattened>>
    /\ UNCHANGED notFlatVars

FlattenInit ==
    /\ schemaFields = <<>>
    /\ hasConfig = FALSE
    /\ responses = [r \in GlobalRefs |-> 200]
    /\ flatSync = FALSE
    /\ flatIndex = 1
    /\ flattened = <<>>
    /\ flatPc = "idle"

(***************************************************************************)
(* The log stores: SecureLogger and addLog of the import hook              *)
(***************************************************************************)

\* the list of isSensitiveField
SensitiveFields ==
    << <<"a", "p", "i", "k", "e", "y">>, <<"a", "p", "i", "_", "k", "e", "y">>, <<"t", "o", "k", "e", "n">>, <<"m", "a", "n", "a", "g", "e", "m", "e", "n", "t", "t", "o", "k", "e", "n">>,
       <<"m", "a", "n", "a", "g", "e", "m", "e", "n", "t", "_", "t", "o", "k", "e", "n">>, <<"p", "a", "s", "s", "w", "o", "r", "d">>, <<"s", "e", "c", "r", "e", "t">>, <<"a", "u", "t", "h", "o", "r", "i", "z", "a", "t", "i", "o", "n">>,
       <<"a", "u", "t", "h">>, <<"b", "e", "a", "r", "e", "r">>, <<"a", "p", "i", "K", "e", "y">>, <<"m", "a", "n", "a", "g", "e", "m", "e", "n", "t", "T", "o", "k", "e", "n">> >>

IsSensitiveField(fieldName) ==
    \E i \in 1..Len(SensitiveFields) :
        Includes(ToLowerCase(fieldName), ToLowerCase(SensitiveFields[i]))

Redacted == Str(<<"[", "R", "E", "D", "A", "C", "T", "E", "D", "]">>)

RECURSIVE SanitizeData(_)
\* Object.entries of an array are its elements under their indices, which
\* are no sensitive names
SanitizeData(data) ==
    IF ~(IsObj(data) \/ IsArr(data)) THEN data
    ELSE IF IsArr(data)
    THEN Arr([i \in 1..Len(data.v) |-> SanitizeData(data.v[i])])
    ELSE Obj([i \in 1..Len(data.v) |->
               IF IsSensitiveField(data.v[i].key)
               THEN Entry(data.v[i].key, Redacted)
               ELSE Entry(data.v[i].key, SanitizeData(data.v[i].val))])

Spaces(n) == [i \in 1..n |-> " "]
Quoted(s) == <<"\"">> \o s \o <<"\"">>

RECURSIVE JsonStringify(_, _)
RECURSIVE JsonMembers(_, _, _)
\* JSON.stringify(value, null, 2) at the given indentation, on values made
\* of strings, booleans, null, arrays and objects
JsonStringify(value, indent) ==
    CASE IsStr(value) -> Quoted(value.v)
      [] value.k = "bool" -> (IF value.v[1] THEN <<"t", "r", "u", "e">> ELSE <<"f", "a", "l", "s", "e">>)
      [] (IsArr(value) \/ IsObj(value)) /\ value.v = <<>> ->
           (IF IsArr(value) THEN <<"[", "]">> ELSE <<"{", "}">>)
      [] (IsArr(value) \/ IsObj(value)) /\ value.v # <<>> ->
           (IF IsArr(value) THEN <<"[">> ELSE <<"{">>) \o <<"\n">>
           \o JsonMembers(value, 1, indent + 2)
           \o <<"\n">> \o Spaces(indent)
           \o (IF IsArr(value) THEN <<"]">> ELSE <<"}">>)
      [] OTHER -> <<"n", "u", "l", "l">>

\* the members from the i-th on, one to a line
JsonMembers(value, i, indent) ==
    LET member ==
          IF IsArr(value) THEN JsonStringify(value.v[i], indent)
          ELSE Quoted(value.v[i].key) \o <<":", " ">>
               \o JsonStringify(value.v[i].val, indent)
    IN  Spaces(indent) \o member
        \o (IF i = Len(value.v) THEN <<>>
            ELSE <<",">> \o <<"\n">> \o JsonMembers(value, i + 1, indent))

\* the details and data the callers pass: nothing, the document of a row
\* (with a global field and a modular block) and small objects
LogDetails ==
    { Undefined,
      Obj(<<Entry(<<"f", "i", "e", "l", "d">>, Str(<<"t", "i", "t", "l", "e">>))>>),
      Obj(<<Entry(<<"t", "i", "t", "l", "e">>, Str(<<"B", "o", "b">>)), Entry(<<"p", "a", "s", "s", "w", "o", "r", "d">>, Str(<<"h", "u", "n", "t", "e", "r", "2">>))>>),
      Obj(<<Entry(<<"t", "i", "t", "l", "e">>, Str(<<"B", "o", "b">>)),
            Entry(<<"s", "e", "o">>, Obj(<<Entry(<<"a", "p", "i", "_", "k", "e", "y">>, Str(<<"b", "l", "t", "1">>))>>))>>),
      Obj(<<Entry(<<"c", "o", "n", "t", "e", "n", "t">>,
                  Arr(<<Obj(<<Entry(<<"h", "e", "r", "o">>,
                                    Obj(<<Entry(<<"a", "c", "c", "e", "s", "s", "_", "t", "o", "k", "e", "n">>, Str(<<"c", "s", "2">>))>>))>>)>>))>>) }

\* SecureLogger.log; the entry is its details
Log ==
    \E details \in LogDetails :
        /\ Len(logs) + Len(hookLogs) < MaxLogs
        /\ LET sanitizedDetails ==
                 IF Truthy(details) THEN SanitizeData(details) ELSE Undefined
               pushed == Append(logs, sanitizedDetails)
           IN  logs' = IF Len(pushed) > 1000
                       THEN SubSeq(pushed, Len(pushed) - 999, Len(pushed))
                       ELSE pushed
        /\ UNCHANGED hookLogs
        /\ UNCHANGED notLogVars

\* addLog of the import hook; the entry is its data
AddLog ==
    \E data \in LogDetails :
        /\ Len(logs) + Len(hookLogs) < MaxLogs
        /\ hookLogs' = Append(hookLogs,
                              IF Truthy(data) THEN Str(JsonStringify(data, 0))
                              ELSE Undefined)
        /\ UNCHANGED logs
        /\ UNCHANGED notLogVars

\* SecureLogger.exportLogs: the logs member of the exported text
ExportLogs ==
    JsonStringify(Arr([i \in 1..Len(logs) |->
                        IF logs[i] = Undefined THEN EmptyObj
                        ELSE Obj(<<Entry(<<"d", "e", "t", "a", "i", "l", "s">>, logs[i])>>)]), 2)

LogInit ==
    /\ logs = <<>>
    /\ hookLogs = <<>>

(***************************************************************************)
(* The mapping step: the page (part_006) and the FieldMapping component    *)
(***************************************************************************)

RECURSIVE MatchFrom(_, _, _, _, _)
\* the loop of findMatchingField from the i-th field on
MatchFrom(header, list, i, best, confidence) ==
    IF i > Len(list) THEN BestOrNone(best, confidence)
    ELSE IF ExactConfidence(header, list[i]) > 0
    THEN MatchResult(list[i], ExactConfidence(header, list[i]))
    ELSE LET c == VariationConfidence(header, list[i])
         IN  IF c > confidence
             THEN MatchFrom(header, list, i + 1, list[i], c)
             ELSE MatchFrom(header, list, i + 1, best, confidence)

FindMatchingField(header, list) == MatchFrom(header, list, 1, NoField, 0)

\* initializeMapping: csvHeaders.map
InitializeMapping(list, headers) ==
    [i \in 1..Len(headers) |->
        InitialEntry(headers[i],
                     FindMatchingField(headers[i], list).matchingField)]

\* the flattened fields of the content type the step maps to
FlattenedFields ==
    << Flattened(<<"t", "i", "t", "l", "e">>, <<"T", "i", "t", "l", "e">>, <<"t", "e", "x", "t">>, TRUE, <<"t", "i", "t", "l", "e">>, NoStr, NoStr),
       Flattened(<<"u", "r", "l">>, <<"U", "R", "L">>, <<"l", "i", "n", "k">>, FALSE, <<"s", "e", "o", ".", "u", "r", "l">>, <<"s", "e", "o">>, NoStr) >>

\* the header rows of the uploaded files; they have at most two columns
HeaderRows ==
    { <<<<"t", "i", "t", "l", "e">>>>, <<<<"n", "a", "m", "e">>>>, <<<<"t", "i", "t", "l", "e">>, <<"n", "a", "m", "e">>>>, <<<<"n", "a", "m", "e">>, <<"t", "i", "t", "l", "e">>>>,
      <<<<"n", "a", "m", "e">>, <<"s", "e", "o", ".", "u", "r", "l">>>>, <<<<"i", "d">>, <<"n", "a", "m", "e">>>> }

\* the values the Select of a row offers
FieldChoices ==
    { FlattenedFields[i].fieldPath : i \in 1..Len(FlattenedFields) }
        \cup { <<"_", "_", "s", "k", "i", "p", "_", "_">> }

\* updateMapping(index, 'contentstackField', value, flattenedFields) on
\* prevMapping; an index one past the end makes an entry of the value alone
UpdateMapping(prevMapping, index, value, list) ==
    LET old == IF index <= Len(prevMapping) THEN prevMapping[index]
               ELSE Mapping(NoStr, NoStr, "undefined", FALSE, NoStr, NoStr, <<>>)
        set == [old EXCEPT !.contentstackField = value]
        found == { i \in 1..Len(list) : list[i].fieldPath = value }
        csField == list[CHOOSE i \in found : \A j \in found : i <= j]
        entry == IF found = {} THEN set
                 ELSE [set EXCEPT !.fieldType = GetFieldType(csField.data_type),
                                  !.isRequired = csField.mandatory,
                                  !.blockType = csField.blockType,
                                  !.parentField = csField.parentField]
    IN  [i \in 1..(IF index > Len(prevMapping) THEN index ELSE Len(prevMapping))
           |-> IF i = index THEN entry ELSE prevMapping[i]]

\* the mapping of a FieldMapping component once its mount effect and its
\* restore effect (part_001:27-45) have run: the restore effect sets the
\* mapping to a non-empty initialMapping
Mounted(headers, initialMapping) ==
    IF Len(initialMapping) > 0 /\ Len(FlattenedFields) > 0
    THEN initialMapping
    ELSE InitializeMapping(FlattenedFields, headers)

\* handleCsvUpload of the page; the mapping tab it opens mounts the component
HandleCsvUpload ==
    \E headers \in HeaderRows :
        /\ csvHeaders' = headers
        /\ fieldMapping' = <<>>
        /\ activeTab' = "mapping"
        /\ stepMapping' = Mounted(headers, <<>>)
        /\ UNCHANGED notStepVars

\* handleMappingUpdate: the Select of the row of a header changes
HandleMappingUpdate ==
    \E index \in 1..Len(csvHeaders), value \in FieldChoices :
        /\ activeTab = "mapping"
        /\ stepMapping' = UpdateMapping(stepMapping, index, value, FlattenedFields)
        /\ UNCHANGED <<csvHeaders, fieldMapping, activeTab>>
        /\ UNCHANGED notStepVars

\* handleSubmit (Complete Field Mapping) and handleMappingComplete of the
\* page, which opens the import tab
HandleSubmit ==
    /\ activeTab = "mapping"
    /\ LET validMapping ==
             SelectSeq(stepMapping, LAMBDA m : m.contentstackField # <<"_", "_", "s", "k", "i", "p", "_", "_">>)
       IN  IF Len(validMapping) = 0
           THEN UNCHANGED <<fieldMapping, activeTab, stepMapping>>
           ELSE /\ fieldMapping' = validMapping
                /\ activeTab' = "import"
                /\ stepMapping' = <<>>
    /\ UNCHANGED csvHeaders
    /\ UNCHANGED notStepVars

\* a tab is selected; the content of the mapping tab is shown once a file is
\* uploaded
SelectTab ==
    \E tab \in {"upload", "mapping", "import"} :
        /\ tab # activeTab
        /\ activeTab' = tab
        /\ stepMapping' = IF tab = "mapping" /\ csvHeaders # <<>>
                      THEN Mounted(csvHeaders, fieldMapping) ELSE <<>>
        /\ UNCHANGED <<csvHeaders, fieldMapping>>
        /\ UNCHANGED notStepVars

StepInit ==
    /\ csvHeaders = <<>>
    /\ fieldMapping = <<>>
    /\ activeTab = "upload"
    /\ stepMapping = <<>>

(***************************************************************************)
(* The import step: startImport and handleCreateOrUpdateEntry of the hook  *)
(***************************************************************************)

\* an ImportResult; outcome stands for its skipped and updated flags and for
\* the kind of its error text, entryUid 0 for none
ImportResult(rowIndex, success, entryUid, outcome, published) ==
    [rowIndex |-> rowIndex, success |-> success, entryUid |-> entryUid,
     outcome |-> outcome, published |-> published]

\* row[csvColumn]
CellOf(row, csvColumn) ==
    IF \E k \in 1..Len(row) : Header(k) = csvColumn
    THEN row[CHOOSE k \in 1..Len(row) : Header(k) = csvColumn]
    ELSE NoStr

RECURSIVE BuildEntry(_, _, _, _)
\* the loop over fieldMapping (lines 264-299) from the k-th mapping on
BuildEntry(row, mappings, k, data) ==
    IF k > Len(mappings) THEN Iterated("built", data)
    ELSE Only({ IF it.pc = "loop"
                THEN BuildEntry(row, mappings, k + 1, it.data) ELSE it :
                it \in { RowIteration(data, mappings[k], cell) :
                         cell \in {CellOf(row, mappings[k].csvColumn)} } })

\* entryData.title || entryData.name || entryData.slug
TitleField(data) ==
    IF Truthy(Get(data, <<"t", "i", "t", "l", "e">>)) THEN Get(data, <<"t", "i", "t", "l", "e">>)
    ELSE IF Truthy(Get(data, <<"n", "a", "m", "e">>)) THEN Get(data, <<"n", "a", "m", "e">>)
    ELSE Get(data, <<"s", "l", "u", "g">>)

\* a platform that never finds an entry
SearchFindsNone(entries, titleField) == {}

\* the uids the platform answers to entries?query={"title": titleField}
Search(entries, titleField) ==
    { uid \in 1..Len(entries) : Get(entries[uid], <<"t", "i", "t", "l", "e">>) = titleField }

First(uids) == CHOOSE uid \in uids : \A other \in uids : uid <= other

\* a comparison that finds any two documents the same
CompareNothing(existingData, newData) == TRUE

\* compareEntryData: a differing key makes the data different, objects
\* being compared by their JSON text
CompareEntryData(existingData, newData) ==
    \A i \in 1..Len(newData.v) :
        Get(existingData, newData.v[i].key) = newData.v[i].val

RECURSIVE Overwritten(_, _, _)
\* the entry the platform keeps after a PUT of newData
Overwritten(entry, newData, i) ==
    IF i > Len(newData.v) THEN entry
    ELSE Overwritten(Set(entry, newData.v[i].key, newData.v[i].val),
                     newData, i + 1)

\* the files of the model: a fieldMapping and the rows it can meet
TitleAge ==
    << TargetMapping(1, <<<<"t", "i", "t", "l", "e">>, "text", TRUE, NoStr, NoStr, <<>> >>),
       TargetMapping(2, <<<<"a", "g", "e">>, "number", FALSE, NoStr, NoStr, <<>> >>) >>
MetaAge ==
    << TargetMapping(1, <<<<"s", "e", "o", ".", "m", "e", "t", "a">>, "text", FALSE, NoStr, <<"s", "e", "o">>, <<>> >>),
       TargetMapping(2, <<<<"a", "g", "e">>, "number", FALSE, NoStr, NoStr, <<>> >>) >>
SocialScoreTitle ==
    << TargetMapping(1, <<<<"s", "e", "o", ".", "s", "o", "c", "i", "a", "l">>, "text", FALSE, NoStr, <<"s", "e", "o">>, <<>> >>),
       TargetMapping(2, <<<<"s", "e", "o", ".", "s", "o", "c", "i", "a", "l", ".", "s", "c", "o", "r", "e">>, "number", FALSE, NoStr, <<"s", "o", "c", "i", "a", "l">>, <<>> >>),
       TargetMapping(3, <<<<"t", "i", "t", "l", "e">>, "text", TRUE, NoStr, NoStr, <<>> >>) >>
ImportFiles ==
    { <<TitleAge, {<<<<"B", "o", "b">>, <<"3", "0">>>>, <<<<"B", "o", "b">>, <<"3", "1">>>>, <<<<>>, <<"3", "0">>>>}>>,
      <<MetaAge, {<<<<"x">>, <<"3", "0">>>>}>>,
      <<SocialScoreTitle, {<<<<"x">>, <<>>, <<"B", "o", "b">>>>, <<<<"x">>, <<"5">>, <<>>>>}>> }

\* what the platform holds before the import
Repositories ==
    { <<>>, <<Obj(<<Entry(<<"t", "i", "t", "l", "e">>, Str(<<"B", "o", "b">>)), Entry(<<"a", "g", "e">>, ToNumber(<<"3", "0">>))>>)>> }

\* a call of startImport: its position, the locals of the row under way,
\* the transport calls it issued and the answers it got, the value of
\* shouldStop its closure holds, the last row that was done or under
\* way when Stop Import was first clicked (-2 while no stop is requested),
\* and the lists onImportComplete was called with
Run(stop) ==
    [pc |-> "loop", i |-> 0, entryData |-> EmptyObj, uid |-> 0,
     isUpdate |-> FALSE, importResults |-> <<>>, calls |-> <<>>,
     answers |-> <<>>, stop |-> stop, stopAt |-> -2, completions |-> <<>>]

\* a transport call, with the document of the row
Call(rowIndex, call, data) ==
    [rowIndex |-> rowIndex, call |-> call, data |-> data]

\* the answer to a call, with the document of the row and the entries the
\* platform held when it answered
Answer(rowIndex, call, ok, data, entries) ==
    [rowIndex |-> rowIndex, call |-> call, ok |-> ok, data |-> data,
     entries |-> entries]

\* importResults.push(result) and the next turn of the loop
Pushed(run, result) ==
    [run EXCEPT !.importResults = Append(@, result), !.i = @ + 1,
                !.pc = "loop"]

\* a transport call is issued
Issued(run, call) ==
    [run EXCEPT !.pc = call,
                !.calls = Append(@, Call(run.i, call, run.entryData))]

Answered(run, call, ok) ==
    [run EXCEPT !.answers =
        Append(@, Answer(run.i, call, ok, run.entryData, repository))]

\* the ImportProgress component is shown with its props
LoadImport ==
    \E file \in ImportFiles, publish \in BOOLEAN, entries \in Repositories :
      \E n \in 0..MaxRows :
        \E rows \in [1..n -> file[2]] :
            /\ importMapping = <<>>
            /\ importMapping' = file[1]
            /\ csvRows' = rows
            /\ shouldPublish' = publish
            /\ repository' = entries
            /\ UNCHANGED <<isImporting, shouldStop, results, runs, started,
                           faults>>
            /\ UNCHANGED notImportVars

\* isPublishing of the component is never set
isPublishing == FALSE

\* the Start Import button without its disabled attribute
StartNeverDisabled == FALSE

\* disabled={isImporting || isPublishing} of the Start Import button
StartDisabled == isImporting \/ isPublishing

\* a click on Start Import: startImport up to its loop; a call that has
\* returned is forgotten
StartImport ==
    /\ importMapping # <<>>
    /\ ~StartDisabled
    /\ started < MaxRuns
    /\ started' = started + 1
    /\ isImporting' = TRUE
    /\ runs' = Append(SelectSeq(runs, LAMBDA run : run.pc # "done"),
                      Run(FALSE))
    /\ UNCHANGED <<csvRows, importMapping, shouldPublish, repository,
                   shouldStop, results, faults>>
    /\ UNCHANGED notImportVars

\* the loop takes a row: handleCreateOrUpdateEntry builds its document and
\* gives the row up, or findExistingEntry issues its lookup, or, the
\* document having no title, name or slug, createNewEntry issues its POST
BeginRow ==
    \E r \in 1..Len(runs) :
        /\ runs[r].pc = "loop"
        /\ runs[r].i < Len(csvRows)
        /\ \E built \in {BuildEntry(csvRows[runs[r].i + 1], importMapping, 1,
                                    EmptyObj)} :
            runs' = [runs EXCEPT ![r] =
                IF built.pc = "failed"
                THEN Pushed(@, ImportResult(@.i, FALSE, 0, "missing", FALSE))
                ELSE IF built.pc = "error"
                THEN Pushed(@, ImportResult(@.i, FALSE, 0, "error", FALSE))
                ELSE IF ~Truthy(TitleField(built.data))
                THEN Issued([@ EXCEPT !.entryData = built.data,
                                      !.isUpdate = FALSE], "create")
                ELSE Issued([@ EXCEPT !.entryData = built.data,
                                      !.isUpdate = FALSE], "find")]
        /\ UNCHANGED <<csvRows, importMapping, shouldPublish, repository,
                       isImporting, shouldStop, results, started, faults>>
        /\ UNCHANGED notImportVars

\* a transport call is answered, with an error at most MaxFaults times
Answers(ok) ==
    /\ ok \/ faults < MaxFaults
    /\ faults' = IF ok THEN faults ELSE faults + 1

\* the lookup is answered: the row is skipped, or updateExistingEntry
\* issues its PUT, or createNewEntry its POST
FindAnswers ==
    \E r \in 1..Len(runs), ok \in BOOLEAN :
        /\ runs[r].pc = "find"
        /\ Answers(ok)
        /\ LET found == Search(repository, TitleField(runs[r].entryData))
               exists == found # {}
               same == exists /\ CompareEntryData(repository[First(found)],
                                                  runs[r].entryData)
               existingEntry == ok /\ exists
           IN  runs' = [runs EXCEPT ![r] =
                 IF existingEntry /\ same
                 THEN Pushed(Answered(@, "find", ok),
                             ImportResult(@.i, TRUE, First(found), "skipped",
                                          FALSE))
                 ELSE IF existingEntry
                 THEN Issued([Answered(@, "find", ok)
                                EXCEPT !.uid = First(found),
                                       !.isUpdate = TRUE], "update")
                 ELSE Issued(Answered(@, "find", ok), "create")]
        /\ UNCHANGED <<csvRows, importMapping, shouldPublish, repository,
                       isImporting, shouldStop, results, started>>
        /\ UNCHANGED notImportVars

\* after the write: publishEntry issues its POST, or the row is done
AfterWrite(run, uid) ==
    IF shouldPublish
    THEN Issued([run EXCEPT !.uid = uid], "publish")
    ELSE Pushed(run, ImportResult(run.i, TRUE, uid,
                                  IF run.isUpdate THEN "updated"
                                  ELSE "created", FALSE))

\* the POST of createNewEntry is answered
CreateAnswers ==
    \E r \in 1..Len(runs), ok \in BOOLEAN :
        /\ runs[r].pc = "create"
        /\ Answers(ok)
        /\ repository' = IF ok THEN Append(repository, runs[r].entryData)
                         ELSE repository
        /\ runs' = [runs EXCEPT ![r] =
              IF ok
              THEN AfterWrite(Answered(@, "create", ok),
                           Len(repository) + 1)
              ELSE Pushed(Answered(@, "create", ok),
                          ImportResult(@.i, FALSE, 0, "error", FALSE))]
        /\ UNCHANGED <<csvRows, importMapping, shouldPublish, isImporting,
                       shouldStop, results, started>>
        /\ UNCHANGED notImportVars

\* the PUT of updateExistingEntry is answered
UpdateAnswers ==
    \E r \in 1..Len(runs), ok \in BOOLEAN :
        /\ runs[r].pc = "update"
        /\ Answers(ok)
        /\ repository' =
              IF ok
              THEN [repository EXCEPT ![runs[r].uid] =
                       Overwritten(@, runs[r].entryData, 1)]
              ELSE repository
        /\ runs' = [runs EXCEPT ![r] =
              IF ok
              THEN AfterWrite(Answered(@, "update", ok), @.uid)
              ELSE Pushed(Answered(@, "update", ok),
                          ImportResult(@.i, FALSE, 0, "error", FALSE))]
        /\ UNCHANGED <<csvRows, importMapping, shouldPublish, isImporting,
                       shouldStop, results, started>>
        /\ UNCHANGED notImportVars

\* the POST of publishEntry is answered: a failure leaves the row a success
PublishAnswers ==
    \E r \in 1..Len(runs), ok \in BOOLEAN :
        /\ runs[r].pc = "publish"
        /\ Answers(ok)
        /\ runs' = [runs EXCEPT ![r] =
              Pushed(Answered(@, "publish", ok),
                     ImportResult(@.i, TRUE, @.uid,
                                  IF @.isUpdate THEN "updated" ELSE "created",
                                  ok))]
        /\ UNCHANGED <<csvRows, importMapping, shouldPublish, repository,
                       isImporting, shouldStop, results, started>>
        /\ UNCHANGED notImportVars

\* the end of startImport without its call of onImportComplete
FinishWithoutCallback ==
    \E r \in 1..Len(runs) :
        /\ runs[r].pc = "loop"
        /\ runs[r].i >= Len(csvRows)
        /\ isImporting' = FALSE
        /\ runs' = [runs EXCEPT ![r].pc = "done"]
        /\ UNCHANGED <<csvRows, importMapping, shouldPublish, repository,
                       shouldStop, results, started, faults>>
        /\ UNCHANGED notImportVars

\* the loop is over: setIsImporting(false) and onImportComplete
FinishImport ==
    \E r \in 1..Len(runs) :
        /\ runs[r].pc = "loop"
        /\ runs[r].i >= Len(csvRows)
        /\ isImporting' = FALSE
        /\ runs' = [runs EXCEPT ![r].pc = "done",
                                ![r].completions =
                                    Append(@, runs[r].importResults)]
        /\ UNCHANGED <<csvRows, importMapping, shouldPublish, repository,
                       shouldStop, results, started, faults>>
        /\ UNCHANGED notImportVars

(***************************************************************************)
(* The import step of the earlier component (ImportProgress.tsx:457-956)   *)
(***************************************************************************)

\* fieldMapping.find(m => m.contentstackField === 'title'), 0 for none
TitleMapping ==
    IF \E k \in 1..Len(importMapping) :
          importMapping[k].contentstackField = <<"t", "i", "t", "l", "e">>
    THEN CHOOSE k \in 1..Len(importMapping) :
            /\ importMapping[k].contentstackField = <<"t", "i", "t", "l", "e">>
            /\ \A j \in 1..(k - 1) :
                  importMapping[j].contentstackField # <<"t", "i", "t", "l", "e">>
    ELSE 0

\* the title entryData starts with: the cell of the title column or
\* `Entry ${rowIndex + 1}`
InitialTitle(row, rowIndex) ==
    LET cell == IF TitleMapping = 0 THEN NoStr
                ELSE CellOf(row, importMapping[TitleMapping].csvColumn)
    IN  IF CellTruthy(cell) THEN Str(cell)
        ELSE Str(<<"E", "n", "t", "r", "y", " ">> \o <<Digits[rowIndex + 2]>>)

RECURSIVE LegacyEntry(_, _, _)
\* fieldMapping.forEach of createOrUpdateEntry from the k-th mapping on
LegacyEntry(row, k, data) ==
    IF k > Len(importMapping) THEN data
    ELSE LET csvValue == CellOf(row, importMapping[k].csvColumn)
         IN  IF CellTruthy(csvValue)
             THEN LegacyEntry(row, k + 1,
                      Set(data, importMapping[k].contentstackField,
                          LegacyTransformValue(csvValue,
                                               importMapping[k].fieldType)))
             ELSE LegacyEntry(row, k + 1, data)

\* whether transformValue threw while the document was built
LegacyThrew(data) == \E n \in 1..Len(data.v) : data.v[n].val = Thrown

\* hasNewFields: objects and arrays are compared by identity
HasNewFields(existingEntry, newData) ==
    \E n \in 1..Len(newData.v) :
        LET value == newData.v[n].val
            held == Get(existingEntry, newData.v[n].key)
        IN  /\ value \notin {Null, Undefined, Str(<<>>)}
            /\ \/ ~Truthy(held)
               \/ held # value
               \/ value.k \in {"obj", "arr", "nan"}

\* importResults.push(result), setResults and the pause of 100 ms
LegacyPushed(run, result) ==
    [run EXCEPT !.importResults = Append(@, result), !.i = @ + 1,
                !.pc = "pause"]

\* the result of a row whose entry is not found, or whose lookup, GET or
\* PUT failed
NotFound(run) == ImportResult(run.i, TRUE, 0, "absent", FALSE)

\* a click on Start Import Process, shown while nothing is imported and
\* there are no results: startImport up to its loop
LegacyStartImport ==
    /\ importMapping # <<>>
    /\ ~isImporting
    /\ results = <<>>
    /\ started < MaxRuns
    /\ started' = started + 1
    /\ isImporting' = TRUE
    /\ results' = <<>>
    /\ shouldStop' = FALSE
    /\ runs' = Append(SelectSeq(runs, LAMBDA run : run.pc # "done"),
                      Run(shouldStop))
    /\ UNCHANGED <<csvRows, importMapping, shouldPublish, repository, faults>>
    /\ UNCHANGED notImportVars

\* a click on Stop Import, shown while an import is under way; the click
\* is handled while startImport waits for a transport call or for its pause
StopImport ==
    /\ isImporting
    /\ \A r \in 1..Len(runs) : runs[r].pc \notin {"loop", "break"}
    /\ shouldStop' = TRUE
    /\ runs' = [r \in 1..Len(runs) |->
                  IF runs[r].pc = "done" \/ runs[r].stopAt # -2 THEN runs[r]
                  ELSE [runs[r] EXCEPT !.stopAt =
                          IF runs[r].pc = "pause"
                          THEN runs[r].i - 1 ELSE runs[r].i]]
    /\ UNCHANGED <<csvRows, importMapping, shouldPublish, repository,
                   isImporting, results, started, faults>>
    /\ UNCHANGED notImportVars

\* the loop takes a row, or breaks on the shouldStop of its closure;
\* createOrUpdateEntry builds the document and checkEntryExists issues its
\* lookup when a column is mapped to title
LegacyBeginRow ==
    \E r \in 1..Len(runs) :
        /\ runs[r].pc = "loop"
        /\ runs[r].i < Len(csvRows)
        /\ \E data \in {LegacyEntry(csvRows[runs[r].i + 1], 1,
                  Obj(<<Entry(<<"t", "i", "t", "l", "e">>,
                              InitialTitle(csvRows[runs[r].i + 1],
                                           runs[r].i))>>))} :
            runs' = [runs EXCEPT ![r] =
                IF @.stop THEN [@ EXCEPT !.pc = "break"]
                ELSE IF LegacyThrew(data)
                THEN LegacyPushed(@, ImportResult(@.i, FALSE, 0, "error",
                                                  FALSE))
                ELSE IF TitleMapping = 0
                THEN LegacyPushed(@, NotFound(@))
                ELSE Issued([@ EXCEPT !.entryData = data], "check")]
        /\ results' = IF runs'[r].pc = "pause" THEN runs'[r].importResults
                      ELSE results
        /\ UNCHANGED <<csvRows, importMapping, shouldPublish, repository,
                       isImporting, shouldStop, started, faults>>
        /\ UNCHANGED notImportVars

\* the lookup of checkEntryExists is answered: the GET of the entry found
\* is issued, or the row is reported as not existing
CheckAnswers ==
    \E r \in 1..Len(runs), ok \in BOOLEAN :
        /\ runs[r].pc = "check"
        /\ Answers(ok)
        /\ LET found == Search(repository, Get(runs[r].entryData, <<"t", "i", "t", "l", "e">>))
           IN  runs' = [runs EXCEPT ![r] =
                 IF ok /\ found # {}
                 THEN Issued([Answered(@, "check", ok)
                                EXCEPT !.uid = First(found)], "get")
                 ELSE LegacyPushed(Answered(@, "check", ok), NotFound(@))]
        /\ results' = IF runs'[r].pc = "pause" THEN runs'[r].importResults
                      ELSE results
        /\ UNCHANGED <<csvRows, importMapping, shouldPublish, repository,
                       isImporting, shouldStop, started>>
        /\ UNCHANGED notImportVars

\* the GET of the existing entry is answered: the row is skipped for want
\* of new fields, or the PUT is issued; a failure falls through to the
\* report of an entry that does not exist
GetAnswers ==
    \E r \in 1..Len(runs), ok \in BOOLEAN :
        /\ runs[r].pc = "get"
        /\ Answers(ok)
        /\ runs' = [runs EXCEPT ![r] =
              IF ~ok THEN LegacyPushed(Answered(@, "get", ok), NotFound(@))
              ELSE IF ~HasNewFields(repository[@.uid], @.entryData)
              THEN LegacyPushed(Answered(@, "get", ok),
                                ImportResult(@.i, TRUE, @.uid, "nonew",
                                             FALSE))
              ELSE Issued(Answered(@, "get", ok), "update")]
        /\ results' = IF runs'[r].pc = "pause" THEN runs'[r].importResults
                      ELSE results
        /\ UNCHANGED <<csvRows, importMapping, shouldPublish, repository,
                       isImporting, shouldStop, started>>
        /\ UNCHANGED notImportVars

\* the PUT is answered: the error thrown for a failure is caught by the
\* catch around the GET (line 705), and the row is reported as not existing
LegacyUpdateAnswers ==
    \E r \in 1..Len(runs), ok \in BOOLEAN :
        /\ runs[r].pc = "update"
        /\ Answers(ok)
        /\ repository' =
              IF ok
              THEN [repository EXCEPT ![runs[r].uid] =
                       Overwritten(@, runs[r].entryData, 1)]
              ELSE repository
        /\ runs' = [runs EXCEPT ![r] =
              IF ~ok THEN LegacyPushed(Answered(@, "update", ok), NotFound(@))
              ELSE IF shouldPublish
              THEN Issued(Answered(@, "update", ok), "publish")
              ELSE LegacyPushed(Answered(@, "update", ok),
                                ImportResult(@.i, TRUE, @.uid, "updated",
                                             FALSE))]
        /\ results' = IF runs'[r].pc = "pause" THEN runs'[r].importResults
                      ELSE results
        /\ UNCHANGED <<csvRows, importMapping, shouldPublish, isImporting,
                       shouldStop, started>>
        /\ UNCHANGED notImportVars

\* the publish call is answered
LegacyPublishAnswers ==
    \E r \in 1..Len(runs), ok \in BOOLEAN :
        /\ runs[r].pc = "publish"
        /\ Answers(ok)
        /\ runs' = [runs EXCEPT ![r] =
              LegacyPushed(Answered(@, "publish", ok),
                           ImportResult(@.i, TRUE, @.uid, "updated", ok))]
        /\ results' = runs'[r].importResults
        /\ UNCHANGED <<csvRows, importMapping, shouldPublish, repository,
                       isImporting, shouldStop, started>>
        /\ UNCHANGED notImportVars

\* the pause of 100 ms after a row is over
PauseOver ==
    \E r \in 1..Len(runs) :
        /\ runs[r].pc = "pause"
        /\ runs' = [runs EXCEPT ![r].pc = "loop"]
        /\ UNCHANGED <<csvRows, importMapping, shouldPublish, repository,
                       isImporting, shouldStop, results, started, faults>>
        /\ UNCHANGED notImportVars

\* the loop is over or was left by its break
LegacyFinishImport ==
    \E r \in 1..Len(runs) :
        /\ \/ runs[r].pc = "loop" /\ runs[r].i >= Len(csvRows)
           \/ runs[r].pc = "break"
        /\ isImporting' = FALSE
        /\ runs' = [runs EXCEPT ![r].pc = "done",
                                ![r].completions =
                                    Append(@, runs[r].importResults)]
        /\ UNCHANGED <<csvRows, importMapping, shouldPublish, repository,
                       shouldStop, results, started, faults>>
        /\ UNCHANGED notImportVars

ImportInit ==
    /\ csvRows = <<>>
    /\ importMapping = <<>>
    /\ shouldPublish = FALSE
    /\ repository = <<>>
    /\ isImporting = FALSE
    /\ shouldStop = FALSE
    /\ results = <<>>
    /\ runs = <<>>
    /\ started = 0
    /\ faults = 0

(***************************************************************************)
(* The page (part_006): the state of the wizard, the ConfigurationForm of  *)
(* its first tab, and what the page keeps in localStorage.  A config is    *)
(* its three required strings, the schema being taken as uploaded; an item *)
(* of the storage is the value JSON.parse gives back for it.               *)
(***************************************************************************)

Config(apiKey, managementToken, contentType) ==
    [apiKey |-> apiKey, managementToken |-> managementToken,
     contentType |-> contentType]

\* the config state a ConfigurationForm starts with (lines 27-34)
FormDefault == Config(<<>>, <<>>, <<>>)

\* what is typed into a field of the form
Typed == { <<>>, <<"a">> }

\* the tabs of the wizard
WizardTabs == { "config", "upload", "mapping", "import" }

\* the storage with no item
NoItems ==
    [config |-> <<>>, csvData |-> FALSE, fieldMapping |-> FALSE,
     activeTab |-> "none"]

\* a copy that keeps the management token
WithToken(config) == config

\* configToSave of the persist effect and parsedConfig of the load effect
WithoutToken(config) == [config EXCEPT !.managementToken = <<>>]

\* the form's state once its effect on initialConfig has run (lines 40-48)
FormMounted(initialConfig) ==
    IF initialConfig = <<>> THEN FormDefault
    ELSE WithoutToken(initialConfig[1])

\* the storage after the persist effects (part_006:64-87) that follow a
\* render: each writes its item when its state is set, the effect on
\* activeTab only when the tab changed or the page was mounted
Persisted(store, config, csv, isMapped, tab, tabChanged) ==
    [config |-> IF config # <<>> THEN <<WithoutToken(config[1])>>
                ELSE store.config,
     csvData |-> csv \/ store.csvData,
     fieldMapping |-> isMapped \/ store.fieldMapping,
     activeTab |-> IF tabChanged THEN tab ELSE store.activeTab]

\* the form shown by a tab: mounted on the config tab, gone otherwise
FormOf(tab, config) ==
    IF tab = "config" THEN FormMounted(config) ELSE FormDefault

\* handleInputChange of the form
HandleInputChange ==
    \E field \in {"apiKey", "managementToken", "contentType"},
       value \in Typed :
        /\ pageActiveTab = "config"
        /\ formConfig' = [formConfig EXCEPT ![field] = value]
        /\ UNCHANGED <<pageConfig, csvData, pageFieldMapping, pageActiveTab,
                       localStorage, importToken>>
        /\ UNCHANGED notPageVars

\* handleReset of the form
HandleReset ==
    /\ pageActiveTab = "config"
    /\ formConfig' = FormDefault
    /\ UNCHANGED <<pageConfig, csvData, pageFieldMapping, pageActiveTab,
                   localStorage, importToken>>
    /\ UNCHANGED notPageVars

\* handleSubmit of the form past its checks of the required fields, and
\* handleConfigSubmit of the page
HandleConfigSubmit ==
    /\ pageActiveTab = "config"
    /\ StrTruthy(formConfig.apiKey)
    /\ StrTruthy(formConfig.managementToken)
    /\ StrTruthy(formConfig.contentType)
    /\ pageConfig' = <<formConfig>>
    /\ pageActiveTab' = "upload"
    /\ formConfig' = FormDefault
    /\ localStorage' = Persisted(localStorage, <<formConfig>>, csvData,
                                 pageFieldMapping, "upload", TRUE)
    /\ UNCHANGED <<csvData, pageFieldMapping, importToken>>
    /\ UNCHANGED notPageVars

\* handleCsvUpload of the page
PageCsvUpload ==
    /\ pageActiveTab = "upload"
    /\ csvData' = TRUE
    /\ pageFieldMapping' = FALSE
    /\ pageActiveTab' = "mapping"
    /\ localStorage' = Persisted([localStorage EXCEPT !.fieldMapping = FALSE],
                                 pageConfig, TRUE, FALSE, "mapping", TRUE)
    /\ UNCHANGED <<pageConfig, formConfig, importToken>>
    /\ UNCHANGED notPageVars

\* handleMappingComplete of the page, called by the FieldMapping component
\* the mapping tab shows when csvData and config are set
HandleMappingComplete ==
    /\ pageActiveTab = "mapping"
    /\ csvData
    /\ pageConfig # <<>>
    /\ pageFieldMapping' = TRUE
    /\ pageActiveTab' = "import"
    /\ localStorage' = Persisted(localStorage, pageConfig, csvData, TRUE,
                                 "import", TRUE)
    /\ UNCHANGED <<pageConfig, csvData, formConfig, importToken>>
    /\ UNCHANGED notPageVars

\* the disabled attribute of the trigger of a tab (lines 157-160)
TabDisabled(tab) ==
    \/ tab = "upload" /\ pageConfig = <<>>
    \/ tab = "mapping" /\ ~csvData
    \/ tab = "import" /\ ~pageFieldMapping

\* onValueChange of the tabs
SetActiveTab ==
    \E tab \in WizardTabs :
        /\ tab # pageActiveTab
        /\ ~TabDisabled(tab)
        /\ pageActiveTab' = tab
        /\ formConfig' = FormOf(tab, pageConfig)
        /\ localStorage' = Persisted(localStorage, pageConfig, csvData,
                                     pageFieldMapping, tab, TRUE)
        /\ UNCHANGED <<pageConfig, csvData, pageFieldMapping, importToken>>
        /\ UNCHANGED notPageVars

\* the config the load effect sets (lines 36-41)
Restored(store) ==
    IF store.config # <<>> THEN <<WithoutToken(store.config[1])>> ELSE <<>>

\* the page is loaded again: its state starts anew and the load effect
\* (lines 28-61) sets what the storage holds
Reload ==
    \E tab \in {IF localStorage.activeTab # "none"
                THEN localStorage.activeTab ELSE "config"} :
        /\ pageConfig' = Restored(localStorage)
        /\ csvData' = localStorage.csvData
        /\ pageFieldMapping' = localStorage.fieldMapping
        /\ pageActiveTab' = tab
        /\ formConfig' = FormOf(tab, Restored(localStorage))
        /\ localStorage' = Persisted(localStorage, Restored(localStorage),
                                     localStorage.csvData,
                                     localStorage.fieldMapping, tab, TRUE)
        /\ UNCHANGED importToken
        /\ UNCHANGED notPageVars

\* clearPersistedData, the Clear All Data button of the form
ClearPersistedData ==
    /\ pageActiveTab = "config"
    /\ localStorage' = NoItems
    /\ pageConfig' = <<>>
    /\ csvData' = FALSE
    /\ pageFieldMapping' = FALSE
    /\ UNCHANGED <<pageActiveTab, formConfig, importToken>>
    /\ UNCHANGED notPageVars

\* Start Import is clicked in the ImportProgress component, which the
\* import tab shows when csvData, config and a mapping are set (line 189):
\* the calls of the run carry config.managementToken as authorization
PageStartImport ==
    /\ pageActiveTab = "import"
    /\ csvData
    /\ pageConfig # <<>>
    /\ pageFieldMapping
    /\ importToken' = <<pageConfig[1].managementToken>>
    /\ UNCHANGED <<pageConfig, csvData, pageFieldMapping, pageActiveTab,
                   formConfig, localStorage>>
    /\ UNCHANGED notPageVars

PageInit ==
    /\ pageConfig = <<>>
    /\ csvData = FALSE
    /\ pageFieldMapping = FALSE
    /\ pageActiveTab = "config"
    /\ formConfig = FormDefault
    /\ localStorage = [NoItems EXCEPT !.activeTab = "config"]
    /\ importToken = <<>>

(***************************************************************************)
(* Specifications                                                          *)
(***************************************************************************)

Init ==
    /\ RowInit /\ MergeInit /\ TransformInit /\ MatchInit /\ FlattenInit
    /\ LogInit /\ StepInit /\ ImportInit /\ PageInit

\* building one row's document
NextRow == ProcessMapping \/ RowBuilt
SpecRow == Init /\ [][NextRow]_vars

\* a sequence of merges
NextMerge == MergeCall \/ MergeCallThrows
SpecMerge == Init /\ [][NextMerge]_vars

\* single calls of the transformers
NextTransform ==
    CallTransformNested \/ CallTransformValue \/ CallLegacyTransformValue
SpecTransform == Init /\ [][NextTransform]_vars

\* matching one header against a list of fields
NextMatch == StartMatch \/ CheckField \/ FinishMatch \/ InitializeEntry
SpecMatch == Init /\ [][NextMatch]_vars

\* flattening one schema
NextFlatten ==
    StartFlatten \/ FlattenNextField \/ FlattenNextFieldSync \/ FlattenReturn
SpecFlatten == Init /\ [][NextFlatten]_vars

\* the import step with the hook of useImportOperations.tsx
NextImport ==
    \/ LoadImport \/ StartImport \/ BeginRow \/ FindAnswers
    \/ CreateAnswers \/ UpdateAnswers \/ PublishAnswers \/ FinishImport
SpecImport == Init /\ [][NextImport]_vars

\* the steps startImport takes by itself once it was called, every
\* transport call being answered in the end
RunStep ==
    \/ BeginRow \/ FindAnswers \/ CreateAnswers \/ UpdateAnswers
    \/ PublishAnswers \/ FinishImport

\* the number of rows of the files of the runs whose end is looked at
LiveRows == 2

\* LoadImport with a file of LiveRows rows and a platform that holds nothing
\* before the first import
LoadImportLive ==
    \E file \in ImportFiles, publish \in BOOLEAN :
        \E rows \in [1..LiveRows -> file[2]] :
            /\ importMapping = <<>>
            /\ importMapping' = file[1]
            /\ csvRows' = rows
            /\ shouldPublish' = publish
            /\ repository' = <<>>
            /\ UNCHANGED <<isImporting, shouldStop, results, runs, started,
                           faults>>
            /\ UNCHANGED notImportVars

NextImportLive ==
    \/ LoadImportLive \/ StartImport \/ BeginRow \/ FindAnswers
    \/ CreateAnswers \/ UpdateAnswers \/ PublishAnswers \/ FinishImport
SpecImportLive == Init /\ [][NextImportLive]_vars /\ WF_vars(RunStep)

\* the wizard of the page and its storage
NextPage ==
    \/ HandleInputChange \/ HandleReset \/ HandleConfigSubmit
    \/ PageCsvUpload \/ HandleMappingComplete \/ SetActiveTab \/ Reload
    \/ ClearPersistedData \/ PageStartImport
SpecPage == Init /\ [][NextPage]_vars

\* the import step with the earlier component
NextLegacy ==
    \/ LoadImport \/ LegacyStartImport \/ StopImport \/ LegacyBeginRow
    \/ CheckAnswers \/ GetAnswers \/ LegacyUpdateAnswers
    \/ LegacyPublishAnswers \/ PauseOver \/ LegacyFinishImport
SpecLegacy == Init /\ [][NextLegacy]_vars

\* the mapping step of the page
NextStep == HandleCsvUpload \/ HandleMappingUpdate \/ HandleSubmit \/ SelectTab
SpecStep == Init /\ [][NextStep]_vars

\* entries added to the two log stores
NextLog == Log \/ AddLog
SpecLog == Init /\ [][NextLog]_vars

(***************************************************************************)
(* Properties of the row document                                          *)
(***************************************************************************)

RECURSIVE GetPath(_, _, _)
\* x[parts[i]]...[parts[n]], undefined as soon as a step is not an object
GetPath(x, parts, i) ==
    IF i > Len(parts) THEN x ELSE GetPath(Get(x, parts[i]), parts, i + 1)

\* the positions of the blocks of a type in a list of blocks
BlocksOfType(elems, blockType) ==
    { i \in 1..Len(elems) : FirstKey(elems[i]) = blockType }

\* what a document holds at a block path f.b.x
BlockPathValue(doc, parts) ==
    LET c == Get(doc, parts[1])
        hit == IF IsArr(c) THEN BlocksOfType(c.v, parts[2]) ELSE {}
    IN  IF hit = {} THEN Undefined
        ELSE GetPath(c.v[CHOOSE i \in hit : TRUE], <<parts[2], parts[3]>>, 1)

\* what a document holds at the path of a mapping
PathValue(doc, mapping) ==
    LET parts == SplitPath(mapping.contentstackField)
    IN  IF StrTruthy(mapping.blockType) /\ Len(parts) = 3
        THEN BlockPathValue(doc, parts)
        ELSE GetPath(doc, parts, 1)

\* the last iteration was on a mapped column and left the row alive
CellProcessed ==
    /\ rowStep > 0
    /\ rowPc \in {"loop", "built"}
    /\ lastMapping.contentstackField # <<"s", "k", "i", "p">>
    /\ lastMapping.fieldType # "global_field"

\* the cell of the last iteration is not empty and its transformation
\* succeeded
CellOk ==
    /\ ~IsBlank(lastCell)
    /\ TransformValue(lastCell, lastMapping) # Null

\* C1: after every iteration of the row loop the document holds the
\* transformed value at the mapped path when the cell is not empty and its
\* transformation succeeded, and is what it was before the iteration
\* otherwise (nothing is held for an empty or failing cell).
RowDocumentHoldsCells ==
    CellProcessed =>
        IF CellOk
        THEN PathValue(entryData, lastMapping)
                 = TransformValue(lastCell, lastMapping)
        ELSE entryData = lastEntryData

\* C1, its first example: title 'Bob' and a number cell 'oops' give
\* {title: 'Bob'}
BobWithoutAge ==
    /\ rowPc = "built"
    /\ rowStep = 2
    /\ lastMapping.contentstackField = <<"a", "g", "e">>
    /\ lastCell = <<"o", "o", "p", "s">>
    /\ entryData = Obj(<<Entry(<<"t", "i", "t", "l", "e">>, Str(<<"B", "o", "b">>))>>)

\* C3: no document of the row loop holds an explicit null, at any depth.
NoExplicitNull == ~HoldsNull(entryData)

(***************************************************************************)
(* Properties of mergeNestedData                                           *)
(***************************************************************************)

\* the last call was a merge at a three-segment block path and returned
BlockCall ==
    /\ mergeCount > 0
    /\ ~mergeThrew
    /\ Len(SplitPath(mergePath)) = 3
    /\ IsObj(mergeNew)
    /\ Truthy(Get(mergeNew, <<"b", "l", "o", "c", "k", "T", "y", "p", "e">>))

\* the entries of a block's fields other than x are those of the block before
SameOtherFields(before, after, x) ==
    /\ IsObj(before) /\ IsObj(after)
    /\ \A i \in 1..Len(before.v) :
          before.v[i].key # x =>
              Get(after, before.v[i].key) = before.v[i].val
    /\ \A i \in 1..Len(after.v) :
          after.v[i].key # x => HasKey(before, after.v[i].key)

\* the list after a block merge of value at f.b.x into the list old
BlockMerged(old, new, b, x, value) ==
    LET hit == BlocksOfType(old, b)
    IN  IF hit # {}
        THEN /\ Len(new) = Len(old)
             /\ \A i \in 1..Len(old) :
                   IF i \in hit
                   THEN /\ FirstKey(new[i]) = b
                        /\ Len(new[i].v) = Len(old[i].v)
                        /\ Get(Get(new[i], b), x) = value
                        /\ SameOtherFields(Get(old[i], b), Get(new[i], b), x)
                   ELSE new[i] = old[i]
        ELSE new = Append(old, Obj(<<Entry(b, Obj(<<Entry(x, value)>>))>>))

\* C2: a merge at a block path f.b.x puts x into the element of f that has
\* block type b when there is one, leaving the list's length and its other
\* elements as they were, and appends a new element {b: {x: value}} when
\* there is none; and no list of blocks of the document ever has two
\* elements of the same block type.
BlockMergesAccumulate ==
    /\ \A i \in 1..Len(mergeDoc.v) :
          IsArr(mergeDoc.v[i].val) =>
              \A a, b \in 1..Len(mergeDoc.v[i].val.v) :
                  a # b => FirstKey(mergeDoc.v[i].val.v[a])
                               # FirstKey(mergeDoc.v[i].val.v[b])
    /\ BlockCall =>
          LET parts == SplitPath(mergePath)
              before == Get(mergeInput, parts[1])
              after == Get(mergeDoc, parts[1])
          IN  /\ IsArr(after)
              /\ BlockMerged(IF IsArr(before) THEN before.v ELSE <<>>,
                             after.v, parts[2], parts[3],
                             Get(mergeNew, <<"v", "a", "l", "u", "e">>))

\* three merges: two fields into one hero block, then a cta block appended
HeroAccumulatedCtaAppended ==
    /\ BlockCall
    /\ mergeCount = 3
    /\ Get(mergeDoc, <<"c", "o", "n", "t", "e", "n", "t">>)
           = Arr(<<Obj(<<Entry(<<"h", "e", "r", "o">>,
                               Obj(<<Entry(<<"h", "e", "a", "d", "l", "i", "n", "e">>, Str(<<"x">>)),
                                     Entry(<<"s", "u", "b", "t", "i", "t", "l", "e">>, Str(<<"3", "0">>))>>))>>),
                   Obj(<<Entry(<<"c", "t", "a">>,
                               Obj(<<Entry(<<"l", "a", "b", "e", "l">>, Str(<<"x">>))>>))>>)>>)

\* C4: the document passed to mergeNestedData is, after the call, what it
\* was before the call.
MergeLeavesInputUnchanged == mergeInputNow = mergeInput

(***************************************************************************)
(* Properties of the transformers                                          *)
(***************************************************************************)

\* C9: an empty or whitespace-only cell makes transformNestedValue return
\* null, whatever the field type and the shape of the path, and the loop
\* iteration leaves the document as it was.
BlankCellOmitted ==
    trFn = "nested" /\ (trCell = NoStr \/ \A i \in 1..Len(trCell) : IsSpace(trCell[i])) =>
        /\ trOut = Null
        /\ trDocNow = trDoc

\* a whitespace-only cell of a number field at a block path went through
\* an iteration
BlankNumberCellInBlock ==
    /\ trFn = "nested"
    /\ trCell = <<" ", "\t">>
    /\ trMapping.fieldType = "number"
    /\ trMapping.contentstackField = <<"c", "o", "n", "t", "e", "n", "t", ".", "h", "e", "r", "o", ".", "c", "o", "u", "n", "t">>
    /\ trDoc = Obj(<<Entry(<<"t", "i", "t", "l", "e">>, Str(<<"B", "o", "b">>))>>)
    /\ trDocNow = trDoc

\* what the rule for booleans gives for a cell
BooleanRule(cell) ==
    IF ToLowerCase(cell) = <<"t", "r", "u", "e">> \/ cell = <<"1">> THEN Bool(TRUE)
    ELSE IF ToLowerCase(cell) = <<"f", "a", "l", "s", "e">> \/ cell = <<"0">> THEN Bool(FALSE)
    ELSE Null

\* C10: both transformValue functions turn a boolean field's cell into true
\* exactly for 'true' (in any case) and '1', into false exactly for 'false'
\* (in any case) and '0', and into null for every other cell.
BooleanFollowsRule ==
    /\ trFn \in {"hook", "legacy"}
    /\ trMapping.fieldType = "boolean"
    /\ trCell # NoStr
    => trOut = BooleanRule(trCell)

(***************************************************************************)
(* Properties of the flatteners                                            *)
(***************************************************************************)

\* the elements of a sequence
Range(seq) == { seq[i] : i \in 1..Len(seq) }

\* the members a global field is expanded into by the call under way
Members(g) ==
    IF g.data_type # <<"g", "l", "o", "b", "a", "l", "_", "f", "i", "e", "l", "d">> THEN {}
    ELSE IF g.hasSchema THEN Range(g.schema)
    ELSE IF ~flatSync /\ StrTruthy(g.reference_to) /\ hasConfig
            /\ responses[g.reference_to] = 200
    THEN Range(GlobalFieldSchema(g.reference_to))
    ELSE {}

\* the modular-block fields of the schema, each with the path of the global
\* field it is a member of (the empty path at top level)
ContainedBlocks ==
    { <<<<>>, f>> : f \in { t \in Range(schemaFields) : t.data_type = <<"b", "l", "o", "c", "k", "s">> } }
    \cup UNION { { <<g.uid, f>> :
                     f \in { t \in Members(g) : t.data_type = <<"b", "l", "o", "c", "k", "s">> } } :
                 g \in Range(schemaFields) }

\* the fields of the blocks of a field: [block uid, field uid]
BlockLeaves(f) ==
    UNION { { <<f.blocks[j].uid, x.uid>> : x \in Range(f.blocks[j].schema) } :
            j \in 1..Len(f.blocks) }

FailureReason(g) ==
    IF StrTruthy(g.reference_to) /\ hasConfig
    THEN CASE responses[g.reference_to] = 401 -> <<"u", "n", "a", "u", "t", "h", "o", "r", "i", "z", "e", "d", " ", "a", "c", "c", "e", "s", "s">>
           [] responses[g.reference_to] = 404 -> <<"g", "l", "o", "b", "a", "l", " ", "f", "i", "e", "l", "d", " ", "n", "o", "t", " ", "f", "o", "u", "n", "d">>
           [] responses[g.reference_to] = 422 ->
                  <<"i", "n", "v", "a", "l", "i", "d", " ", "c", "r", "e", "d", "e", "n", "t", "i", "a", "l", "s", " ", "o", "r", " ", "f", "i", "e", "l", "d", " ", "n", "o", "t", " ", "a", "c", "c", "e", "s", "s", "i", "b", "l", "e">>
           [] responses[g.reference_to] = 0 -> <<"n", "e", "t", "w", "o", "r", "k", " ", "e", "r", "r", "o", "r">>
           [] OTHER -> <<"s", "c", "h", "e", "m", "a", " ", "u", "n", "a", "v", "a", "i", "l", "a", "b", "l", "e">>
    ELSE <<"n", "o", " ", "c", "o", "n", "f", "i", "g">>

\* whether the resolution of a global field's schema fails
Unresolved(g) ==
    /\ g.data_type = <<"g", "l", "o", "b", "a", "l", "_", "f", "i", "e", "l", "d">>
    /\ ~g.hasSchema
    /\ StrTruthy(g.reference_to) /\ hasConfig =>
           responses[g.reference_to] # 200

\* the global fields the call meets, each with its path
GlobalsMet ==
    { <<g.uid, g>> : g \in Range(schemaFields) }
    \cup UNION { { <<Dot(g.uid, h.uid), h>> : h \in Members(g) } :
                 g \in Range(schemaFields) }

\* whether an entry is the one of the field at a path or one below it
AtOrBelow(e, path) ==
    e.fieldPath = path \/ StartsAt(e.fieldPath, path \o <<".">>, 1)

RECURSIVE Without(_, _)
\* a list of fields without those of a uid
Without(list, uid) ==
    IF list = <<>> THEN <<>>
    ELSE (IF Head(list).uid = uid THEN <<>> ELSE <<Head(list)>>)
         \o Without(Tail(list), uid)

\* C6: when flattenContentstackFields has returned, every global field
\* whose schema could not be resolved has an entry at its path whose
\* display name carries the failure reason, there is no entry below its
\* path, and the entries of the other fields are those of the schema
\* flattened without it.
UnresolvedGlobalDegrades ==
    flatPc = "done" /\ ~flatSync =>
        /\ \A m \in GlobalsMet :
              Unresolved(m[2]) =>
                  /\ \E e \in Range(flattened) :
                        /\ e.fieldPath = m[1]
                        /\ e.uid = m[2].uid
                        /\ e.display_name
                               = m[2].display_name \o <<" ", "(", "g", "l", "o", "b", "a", "l", " ", "f", "i", "e", "l", "d", " ", "-", " ">>
                                   \o FailureReason(m[2]) \o <<")">>
                  /\ \A e \in Range(flattened) :
                        ~StartsAt(e.fieldPath, m[1] \o <<".">>, 1)
        /\ \A g \in Range(schemaFields) :
              Unresolved(g) =>
                  SelectSeq(flattened, LAMBDA e : ~AtOrBelow(e, g.uid))
                      = FlattenContentstackFields(
                            Without(schemaFields, g.uid), 1, <<>>, <<>>,
                            hasConfig, responses)

\* a schema of two fields, the second a global field the platform answers
\* 404 for, has been flattened
AuthorNotFoundFlattened ==
    /\ flatPc = "done"
    /\ ~flatSync
    /\ hasConfig
    /\ Len(schemaFields) = 2
    /\ schemaFields[1].uid = <<"c", "o", "n", "t", "e", "n", "t">>
    /\ schemaFields[2].uid = <<"a", "u", "t", "h", "o", "r">>
    /\ responses[<<"a", "u", "t", "h", "o", "r", "_", "g", "f">>] = 404
    /\ Len(flattened) = 5

(***************************************************************************)
(* Properties of the matcher                                               *)
(***************************************************************************)

\* the positions of the fields whose uid is the header
UidMatches == { i \in 1..Len(fields) : fields[i].uid = csvHeader }

FirstUidMatch == CHOOSE i \in UidMatches : \A j \in UidMatches : i <= j

Greater(a, b) == IF a > b THEN a ELSE b

RECURSIVE BestOver(_)
\* the best confidence any field of the first n reaches
BestOver(n) ==
    IF n = 0 THEN 0
    ELSE Greater(BestOver(n - 1),
                 Greater(ExactConfidence(csvHeader, fields[n]),
                         VariationConfidence(csvHeader, fields[n])))

\* C8: the matcher returns a field only with a confidence of 70 or more and
\* {null, 0} otherwise; it returns {null, 0} whenever the best confidence
\* over all fields is below 70, and the entry initializeMapping then makes
\* for the column is the skip entry.
MatchNeedsConfidence ==
    /\ matchPc \in {"returned", "mapped"} =>
          /\ matchResult.matchingField # NoField =>
                 matchResult.confidence >= 70
          /\ matchResult.matchingField = NoField =>
                 matchResult.confidence = 0
          /\ BestOver(Len(fields)) < 70 =>
                 matchResult = MatchResult(NoField, 0)
    /\ matchPc = "mapped" /\ matchResult.matchingField = NoField =>
          /\ initialEntry.csvColumn = csvHeader
          /\ initialEntry.contentstackField = <<"_", "_", "s", "k", "i", "p", "_", "_">>
          /\ initialEntry.fieldType = "text"
          /\ ~initialEntry.isRequired

\* a header no field of a full list matches has got its skip entry
UnmatchedHeaderSkipped ==
    /\ matchPc = "mapped"
    /\ csvHeader = <<"a", "u", "t", "h", "o", "r">>
    /\ Len(fields) = 3
    /\ matchResult = MatchResult(NoField, 0)
    /\ initialEntry.contentstackField = <<"_", "_", "s", "k", "i", "p", "_", "_">>


(***************************************************************************)
(* Properties of the select and reference branches of transformValue       *)
(***************************************************************************)

\* the options a cell names, by value or by label, whatever the case
NamedOptions(cell, options) ==
    { i \in 1..Len(options) :
        \/ ToLowerCase(options[i].value) = ToLowerCase(cell)
        \/ ToLowerCase(options[i].text) = ToLowerCase(cell) }

\* C11: transformValue of the import hook, for a select field, returns the
\* value of a declared option that the cell names by value or by label
\* (case-insensitively), and null when the cell names no declared option;
\* it never returns a string that is not a declared option value.
SelectReturnsNamedOption ==
    /\ trFn = "hook"
    /\ trMapping.fieldType = "select"
    /\ trCell # NoStr
    => LET named == NamedOptions(trCell, trMapping.selectOptions)
       IN  IF named = {} THEN trOut = Null
           ELSE \E i \in named : trOut = Str(trMapping.selectOptions[i].value)

\* C12: both transformValue functions turn the non-empty cell raw of a
\* reference field into the one-element list [{uid: raw}].
ReferenceWrappedAsUidList ==
    /\ trFn \in {"hook", "legacy"}
    /\ trMapping.fieldType = "reference"
    /\ ~IsBlank(trCell)
    => trOut = Arr(<<Obj(<<Entry(<<"u", "i", "d">>, Str(trCell))>>)>>)


(***************************************************************************)
(* Properties of the log stores                                            *)
(***************************************************************************)

\* the values the logged data hold under sensitive keys
SecretValues == { <<"h", "u", "n", "t", "e", "r", "2">>, <<"b", "l", "t", "1">>, <<"c", "s", "2">> }

RECURSIVE KeepsSensitive(_)
\* some sensitive key, at some depth, holds something else than '[REDACTED]'
KeepsSensitive(x) ==
    IF IsArr(x) THEN \E i \in 1..Len(x.v) : KeepsSensitive(x.v[i])
    ELSE IF IsObj(x)
    THEN \E i \in 1..Len(x.v) :
            IF \E name \in {<<"a", "p", "i", "_", "k", "e", "y">>, <<"a", "p", "i", "k", "e", "y">>, <<"t", "o", "k", "e", "n">>, <<"a", "u", "t", "h", "o", "r", "i", "z", "a", "t", "i", "o", "n">>,
                            <<"p", "a", "s", "s", "w", "o", "r", "d">>, <<"s", "e", "c", "r", "e", "t">>} :
                  Includes(ToLowerCase(x.v[i].key), name)
            THEN x.v[i].val # Redacted
            ELSE KeepsSensitive(x.v[i].val)
    ELSE FALSE

\* C18: no entry kept by SecureLogger or by the import hook's addLog, and no
\* export of them, exposes a value held under a sensitive key: in the
\* details of every entry such values are replaced by '[REDACTED]' at every
\* depth.
LogsHoldNoSecret ==
    /\ \A i \in 1..Len(logs) : ~KeepsSensitive(logs[i])
    /\ \A secret \in SecretValues :
          /\ ~Includes(ExportLogs, secret)
          /\ \A i \in 1..Len(hookLogs) :
                IsStr(hookLogs[i]) => ~Includes(hookLogs[i].v, secret)


(***************************************************************************)
(* Properties of the mapping step                                          *)
(***************************************************************************)

\* one entry per header, the i-th for the i-th header
Aligned(list, headers) ==
    /\ Len(list) = Len(headers)
    /\ \A i \in 1..Len(headers) : list[i].csvColumn = headers[i]

\* C17: whenever the mapping step is shown (after initialisation, after
\* manual changes, after a restore, after a new CSV upload) the mapping
\* list has exactly one entry per CSV header of the current file, the i-th
\* with csvColumn equal to the i-th header, and so has the list that
\* Complete Field Mapping hands on.
OneEntryPerHeader ==
    /\ activeTab = "mapping" /\ csvHeaders # <<>> => Aligned(stepMapping, csvHeaders)
    /\ Len(fieldMapping) > 0 => Aligned(fieldMapping, csvHeaders)


(***************************************************************************)
(* Properties of the import step                                           *)
(***************************************************************************)

\* some mapping that is not skipped is required and has an empty cell
MissingRequired(row) ==
    \E k \in 1..Len(importMapping) :
        /\ importMapping[k].contentstackField # <<"s", "k", "i", "p">>
        /\ importMapping[k].isRequired
        /\ ~CellTruthy(CellOf(row, importMapping[k].csvColumn))

WriteCalls(run, rowIndex) ==
    { run.calls[n].call : n \in { m \in 1..Len(run.calls) :
        /\ run.calls[m].rowIndex = rowIndex
        /\ run.calls[m].call \in {"create", "update"} } }

\* the entries of the title of a document among those the platform holds
Titled(entries, data) ==
    { uid \in 1..Len(entries) :
        /\ Truthy(TitleField(data))
        /\ Get(entries[uid], <<"t", "i", "t", "l", "e">>) = TitleField(data) }

\* every field of the new document equals the existing entry's
SameFields(entry, data) ==
    \A n \in 1..Len(data.v) : Get(entry, data.v[n].key) = data.v[n].val

\* what the row of a lookup must get when the lookup saw the entries of
\* uids: nothing written (skip), an update, or a create
WritesFor(entries, uids, data) ==
    IF uids = {} THEN {"create"}
    ELSE IF SameFields(entries[First(uids)], data) THEN {}
    ELSE {"update"}

SameTitleCreates(run) ==
    { pair \in (1..Len(run.calls)) \X (1..Len(run.calls)) :
        /\ pair[1] < pair[2]
        /\ run.calls[pair[1]].call = "create"
        /\ run.calls[pair[2]].call = "create"
        /\ Truthy(TitleField(run.calls[pair[1]].data))
        /\ TitleField(run.calls[pair[1]].data)
             = TitleField(run.calls[pair[2]].data) }

InFlight == { r \in 1..Len(runs) : runs[r].pc # "done" }

\* C20: at no time are two rows in flight, whatever the clicks on Start
\* Import: at most one call of startImport is under way, its transport
\* calls are issued in the order of the rows, and each is issued only when
\* every call before it has been answered.
OneRowAtATime ==
    /\ Cardinality(InFlight) <= 1
    /\ \A r \in 1..Len(runs) :
          LET run == runs[r]
              pending == IF run.pc \in {"find", "create", "update", "publish"}
                         THEN 1 ELSE 0
          IN  /\ Len(run.calls) = Len(run.answers) + pending
              /\ \A n \in 1..Len(run.answers) :
                    /\ run.answers[n].rowIndex = run.calls[n].rowIndex
                    /\ run.answers[n].call = run.calls[n].call
              /\ \A m, n \in 1..Len(run.calls) :
                    m < n => run.calls[m].rowIndex <= run.calls[n].rowIndex
              /\ \A n \in 1..Len(run.calls) : run.calls[n].rowIndex <= run.i

\* Start Import was clicked again after an import, and the second import
\* has a call under way for its second row
SecondImportAtSecondRow ==
    /\ started = 2
    /\ \E r \in InFlight :
          /\ runs[r].i = 1
          /\ runs[r].pc \in {"find", "create", "update", "publish"}

\* the results a run holds for a row
ResultsFor(run, rowIndex) ==
    { run.importResults[n] : n \in { m \in 1..Len(run.importResults) :
        run.importResults[m].rowIndex = rowIndex } }

\* the rows for which a create or update call of a run was answered with
\* an error
FailedWrites(run) ==
    { run.answers[n].rowIndex : n \in { m \in 1..Len(run.answers) :
        /\ run.answers[m].call \in {"create", "update"}
        /\ ~run.answers[m].ok } }

\* C14: a row that fails (a required cell is missing, its create or update
\* call is answered with an error) gets a failed result, every row gets one
\* result of its own in the order of the rows, and a run that is over
\* without a result for every row was stopped.
FailedRowFailsAlone ==
    \A r \in 1..Len(runs) :
        /\ \A n \in 1..Len(runs[r].importResults) :
              /\ runs[r].importResults[n].rowIndex = n - 1
              /\ MissingRequired(csvRows[n])
                 => ~runs[r].importResults[n].success
        /\ \A rowIndex \in FailedWrites(runs[r]) :
              \A result \in ResultsFor(runs[r], rowIndex) : ~result.success
        /\ runs[r].pc = "done" /\ runs[r].stopAt = -2
           => Len(runs[r].importResults) = Len(csvRows)

\* C16: once Stop Import was clicked while an import is under way, the row
\* in flight at the click gets its result and no later row gets a transport
\* call or a result.
StopEndsAtRowBoundary ==
    \A r \in 1..Len(runs) :
        runs[r].stopAt # -2
        => /\ \A n \in 1..Len(runs[r].calls) :
                 runs[r].calls[n].rowIndex <= runs[r].stopAt
           /\ \A n \in 1..Len(runs[r].importResults) :
                 runs[r].importResults[n].rowIndex <= runs[r].stopAt
           /\ runs[r].pc = "done" /\ runs[r].stopAt >= 0
              => ResultsFor(runs[r], runs[r].stopAt) # {}

\* C21: no two entries of the flattened list have the same fieldPath.
FieldPathsUnique ==
    \A i, j \in 1..Len(flattened) :
        i # j => flattened[i].fieldPath # flattened[j].fieldPath

RECURSIVE Embedded(_)
\* whether every global field of a schema carries its nested schema
Embedded(list) ==
    \A i \in 1..Len(list) :
        list[i].data_type = <<"g", "l", "o", "b", "a", "l", "_", "f", "i", "e", "l", "d">>
        => list[i].hasSchema /\ Embedded(list[i].schema)

\* C22: when a flattener has returned for a schema in which every global
\* field carries its nested schema, the list is the one either flattener
\* returns for it, whatever the configuration and the platform's answers,
\* and no schema is asked of the platform; when the synchronous flattener
\* has returned, a global field without nested schema has its own entry and
\* nothing else at or below its path.
SyncAgreesOnEmbeddedSchemas ==
    flatPc = "done" =>
        /\ Embedded(schemaFields) =>
              /\ flattened
                   = FlattenContentstackFieldsSync(schemaFields, 1, <<>>, <<>>)
              /\ \A config \in BOOLEAN, answers \in [GlobalRefs -> Statuses] :
                    /\ flattened
                         = FlattenContentstackFields(schemaFields, 1, <<>>,
                                                     <<>>, config, answers)
                    /\ Fetched(schemaFields, 1, config, answers) = {}
        /\ flatSync =>
              \A g \in Range(schemaFields) :
                  g.data_type = <<"g", "l", "o", "b", "a", "l", "_", "f", "i", "e", "l", "d">> /\ ~g.hasSchema
                  => SelectSeq(flattened, LAMBDA e : AtOrBelow(e, g.uid))
                         = FieldItself(g, g.uid, <<>>)

\* the asynchronous flattener has returned for a schema whose global field
\* carries its nested schema
EmbeddedGlobalFlattened ==
    /\ flatPc = "done"
    /\ ~flatSync
    /\ hasConfig
    /\ Len(schemaFields) = 2
    /\ schemaFields[1].uid = <<"c", "o", "n", "t", "e", "n", "t">>
    /\ schemaFields[2].uid = <<"s", "e", "o">>
    /\ Len(flattened) = 7

\* C23 as claimed: the entry of a field inside a modular block has the
\* block's uid as blockType and no parentField.
BlockFieldsHaveNoParent ==
    flatPc = "done" =>
        \A c \in ContainedBlocks :
            \A l \in BlockLeaves(c[2]) :
                \E e \in Range(flattened) :
                    /\ e.fieldPath
                         = Dot(Dot(PathUnder(c[1], c[2].uid), l[1]), l[2])
                    /\ e.blockType = l[1]
                    /\ e.parentField = NoStr

\* C23: the entry of a field inside a modular block has the block's uid as
\* blockType and the uid of the modular-blocks field that holds the block
\* as parentField.
BlockFieldsNameContainer ==
    flatPc = "done" =>
        \A c \in ContainedBlocks :
            \A l \in BlockLeaves(c[2]) :
                /\ \E e \in Range(flattened) :
                      e.fieldPath
                        = Dot(Dot(PathUnder(c[1], c[2].uid), l[1]), l[2])
                /\ \A e \in Range(flattened) :
                      e.fieldPath
                        = Dot(Dot(PathUnder(c[1], c[2].uid), l[1]), l[2])
                      => /\ e.blockType = l[1]
                         /\ e.parentField = c[2].uid

\* the fields of the blocks of a top-level field have been flattened
HeroCountFlattened ==
    /\ flatPc = "done"
    /\ \E e \in Range(flattened) :
          /\ e.fieldPath = <<"c", "o", "n", "t", "e", "n", "t", ".", "h", "e", "r", "o", ".", "c", "o", "u", "n", "t">>
          /\ e.blockType = <<"h", "e", "r", "o">>
          /\ e.parentField = <<"c", "o", "n", "t", "e", "n", "t">>

\* the last call of mergeNestedData took the global-field branch
GlobalFieldCall ==
    /\ mergeCount > 0
    /\ IsObj(mergeNew)
    /\ Truthy(Get(mergeNew, <<"i", "s", "G", "l", "o", "b", "a", "l", "F", "i", "e", "l", "d">>))

\* the values the document held along a path short of its last segment
HeldAlong(doc, parts) ==
    { GetPath(doc, SubSeq(parts, 1, n), 1) : n \in 1..(Len(parts) - 1) }

\* C24: a merge on a global-field path whose top-level or intermediate
\* segment held a string, number or boolean raises no error, and the
\* document it returns holds the new value at the path.
ConflictingValueReplaced ==
    (/\ GlobalFieldCall
     /\ \E held \in HeldAlong(mergeInput, SplitPath(mergePath)) :
           held.k \in {"str", "num", "bool"})
    => /\ ~mergeThrew
       /\ GetPath(mergeDoc, SplitPath(mergePath), 1) = Get(mergeNew, <<"v", "a", "l", "u", "e">>)

\* the last iteration met a non-empty cell of a number, date, select or
\* reference field whose transformation failed
CellFailed ==
    /\ rowStep > 0
    /\ lastMapping.contentstackField # <<"s", "k", "i", "p">>
    /\ lastMapping.fieldType \in {"number", "date", "select", "reference"}
    /\ ~IsBlank(lastCell)
    /\ TransformValue(lastCell, lastMapping) = Null

\* C25: after an iteration on a non-empty cell that failed to transform,
\* the document is what it was before the iteration (the field is left
\* out and nothing stands in for it), and the iteration has recorded a
\* warning entry that carries the row's index.
FailedCellOmittedAndLogged ==
    CellFailed /\ rowPc = "loop" =>
        /\ entryData = lastEntryData
        /\ \E n \in (Len(lastRowLogs) + 1)..Len(rowLogs) :
              rowLogs[n] = LogEntry("warning", handlerRowIndex)

\* what a mapping copies from the flattened field at its target path, and
\* what initializeMapping gives a column without a field
CopiedFrom(target) ==
    LET found == { i \in 1..Len(FlattenedFields) :
                     FlattenedFields[i].fieldPath = target }
    IN  IF found = {}
        THEN [fieldType |-> "text", isRequired |-> FALSE,
              blockType |-> NoStr, parentField |-> NoStr,
              selectOptions |-> <<>>]
        ELSE LET f == FlattenedFields[CHOOSE i \in found : TRUE]
             IN  [fieldType |-> GetFieldType(f.data_type),
                  isRequired |-> f.mandatory, blockType |-> f.blockType,
                  parentField |-> f.parentField, selectOptions |-> <<>>]

\* C26: while the mapping step is shown, the field type, required flag,
\* block uid, parent field and select options of every entry of the
\* mapping are those of the flattened field at the entry's target path,
\* and those of an unmatched column when the target is skip.
MappingFollowsTarget ==
    activeTab = "mapping" =>
        \A i \in 1..Len(stepMapping) :
            LET m == stepMapping[i]
            IN  [fieldType |-> m.fieldType, isRequired |-> m.isRequired,
                 blockType |-> m.blockType, parentField |-> m.parentField,
                 selectOptions |-> m.selectOptions]
                    = CopiedFrom(m.contentstackField)

\* a call of startImport has returned: isImporting is false again and
\* onImportComplete was called once, with one result for every row, the
\* n-th for row index n - 1
Completed(run) ==
    /\ run.pc = "done"
    /\ ~isImporting
    /\ run.completions = <<run.importResults>>
    /\ Len(run.importResults) = Len(csvRows)
    /\ \A n \in 1..Len(run.importResults) :
          run.importResults[n].rowIndex = n - 1

\* C27: a call of startImport that is under way leads to its completion
\* (isImporting false, onImportComplete called exactly once with one result
\* per row in the order of the rows); until then onImportComplete is not
\* called, and a call that is over is complete.
StartImportCompletes ==
    /\ [](\A r \in 1..Len(runs) :
             IF runs[r].pc = "done" THEN Completed(runs[r])
             ELSE runs[r].completions = <<>>)
    /\ (InFlight # {}) ~> (InFlight = {} /\ runs # <<>>
                           /\ Completed(runs[Len(runs)]))

\* an import of LiveRows rows, one of whose transport calls failed, is over
RowsImportedDespiteFailure ==
    /\ runs # <<>>
    /\ runs[Len(runs)].pc = "done"
    /\ Len(runs[Len(runs)].importResults) = LiveRows
    /\ \E n \in 1..LiveRows : ~runs[Len(runs)].importResults[n].success
    /\ faults = 1

\* C28: in a call of startImport that follows a first one over the same rows
\* and mapping, no transport call having failed, no create and no update
\* call is issued, and every row for whose document a lookup was issued (it
\* has a title, name or slug) is reported as skipped.
ReimportIssuesNoWrite ==
    (started >= 2 /\ faults = 0) =>
        \A r \in 1..Len(runs) :
            /\ \A n \in 1..Len(runs[r].calls) :
                  runs[r].calls[n].call \notin {"create", "update"}
            /\ \A n \in 1..Len(runs[r].importResults) :
                  (\E c \in 1..Len(runs[r].calls) :
                      /\ runs[r].calls[c].call = "find"
                      /\ runs[r].calls[c].rowIndex
                            = runs[r].importResults[n].rowIndex)
                  => runs[r].importResults[n].outcome = "skipped"

\* C29: the management token is never in the storage: the config item, when
\* there is one, has an empty managementToken, whatever was submitted,
\* shown, reloaded or cleared, and the config a load sets has an empty
\* managementToken.
TokenNeverStored ==
    /\ [](localStorage.config # <<>>
            => localStorage.config[1].managementToken = <<>>)
    /\ [][Reload /\ pageConfig' # <<>>
            => pageConfig'[1].managementToken = <<>>]_vars

\* a config with a token is held by the page, its item is in the storage
TokenHeldAndConfigStored ==
    /\ pageConfig # <<>>
    /\ StrTruthy(pageConfig[1].managementToken)
    /\ localStorage.config # <<>>
    /\ localStorage.config[1].apiKey = pageConfig[1].apiKey

\* C30: an import is only started with a config whose management token is
\* not empty, also after a load that set the config, the file, the mapping
\* and the tab from the storage.
ImportStartedWithToken ==
    importToken # <<>> => StrTruthy(importToken[1])

=============================================================================
